---- MODULE Spec2Model ----
(***************************************************************************)
(* A model of the AgentMind reasoning core: the Step Executor, the Answer  *)
(* Synthesizer and the Self-Corrector (agents/reasoner.py,                 *)
(* agents/self_corrector.py), the Verifier (agents/verifier.py) and the    *)
(* Orchestrator with its result cache (reasoning_system.py, api.py).       *)
(*                                                                         *)
(* Python strings are TLA+ strings; the string operations of the code      *)
(* (lower, strip, split, in, startswith, str of a number, the numeric      *)
(* regular expression) are the operators of the first section.  Python     *)
(* floats are exact rationals: a float solver output is an integer count   *)
(* of hundredths, a confidence is an integer count of 1/Scale.             *)
(* The domain solvers and the advisory oracle are external: what each of   *)
(* them answers on a problem is an input, drawn per problem and remembered *)
(* in `pool`, so that a solver is a function of the problem it is given.   *)
(***************************************************************************)
EXTENDS Integers, Sequences, FiniteSets, TLC

(***************************************************************************)
(* Section 1.  Python string operations.                                    *)
(***************************************************************************)

UpperLetters == "ABCDEFGHIJKLMNOPQRSTUVWXYZ"
LowerLetters == "abcdefghijklmnopqrstuvwxyz"
Digits == "0123456789"

\* x in s, for a one-character string x
CharIn(x, s) == \E i \in 1..Len(s) : SubSeq(s, i, i) = x

\* the position of the character x in s (x occurs in s)
IndexOf(x, s) == CHOOSE i \in 1..Len(s) : SubSeq(s, i, i) = x

\* str.lower() on one character
LowerChar(x) ==
    IF CharIn(x, UpperLetters)
    THEN SubSeq(LowerLetters, IndexOf(x, UpperLetters), IndexOf(x, UpperLetters))
    ELSE x

RECURSIVE Lower(_)
\* str.lower()
Lower(s) == IF s = "" THEN "" ELSE LowerChar(Head(s)) \o Lower(Tail(s))

IsSpace(x) == x = " "
IsDigit(x) == CharIn(x, Digits)
\* str.isalpha() on one character
IsAlpha(x) == CharIn(x, UpperLetters) \/ CharIn(x, LowerLetters)

RECURSIVE LStrip(_)
LStrip(s) == IF s # "" /\ IsSpace(Head(s)) THEN LStrip(Tail(s)) ELSE s

RECURSIVE RStrip(_)
RStrip(s) ==
    IF s # "" /\ IsSpace(SubSeq(s, Len(s), Len(s)))
    THEN RStrip(SubSeq(s, 1, Len(s) - 1))
    ELSE s

\* str.strip()
Strip(s) == RStrip(LStrip(s))

\* a in b  (substring test)
Contains(a, b) ==
    \E i \in 0..(Len(b) - Len(a)) : SubSeq(b, i + 1, i + Len(a)) = a

\* b.startswith(a)
StartsWith(b, a) == Len(a) <= Len(b) /\ SubSeq(b, 1, Len(a)) = a

\* the first whitespace-delimited word of s, s not starting with a space
RECURSIVE FirstWord(_)
FirstWord(s) ==
    IF s = "" \/ IsSpace(Head(s)) THEN "" ELSE Head(s) \o FirstWord(Tail(s))

RECURSIVE Words(_)
\* set(s.split())
Words(s) ==
    LET t == LStrip(s)
    IN  IF t = "" THEN {}
        ELSE {FirstWord(t)} \cup Words(SubSeq(t, Len(FirstWord(t)) + 1, Len(t)))

\* any(char.isalpha() for char in s)
AnyAlpha(s) == \E i \in 1..Len(s) : IsAlpha(SubSeq(s, i, i))

RECURSIVE RemoveCommas(_)
\* s.replace(',', '')
RemoveCommas(s) ==
    IF s = "" THEN ""
    ELSE (IF Head(s) = "," THEN "" ELSE Head(s)) \o RemoveCommas(Tail(s))

DigitChar(d) == SubSeq(Digits, d + 1, d + 1)
DigitVal(x) == IndexOf(x, Digits) - 1

RECURSIVE NatToStr(_)
NatToStr(n) ==
    IF n < 10 THEN DigitChar(n) ELSE NatToStr(n \div 10) \o DigitChar(n % 10)

\* str(n) for a Python int
IntToStr(n) == IF n < 0 THEN "-" \o NatToStr(-n) ELSE NatToStr(n)

\* str(x) for a Python float x = h/100: the shortest decimal that reads back
\* (floats of the model have at most two decimals and are below 1e16)
FloatToStr(h) ==
    LET a == IF h < 0 THEN -h ELSE h
        frac == a % 100
        dec == IF frac % 10 = 0 THEN DigitChar(frac \div 10)
               ELSE DigitChar(frac \div 10) \o DigitChar(frac % 10)
    IN  (IF h < 0 THEN "-" ELSE "") \o NatToStr(a \div 100) \o "." \o dec

\* float.is_integer()
IsInteger(h) == h % 100 = 0

(***************************************************************************)
(* re.findall(r'-?\d+\.?\d*', s)[0], read as float: the leftmost match.   *)
(* NumberStart is its first position (HasNumber: there is one); the number *)
(* read is [neg, int, frac], frac being "the decimals are not all 0".       *)
(***************************************************************************)
DigitAt(s, i) == i >= 1 /\ i <= Len(s) /\ IsDigit(SubSeq(s, i, i))

NumberStarts(s) ==
    {i \in 1..Len(s) :
        DigitAt(s, i) \/ (SubSeq(s, i, i) = "-" /\ DigitAt(s, i + 1))}

HasNumber(s) == NumberStarts(s) # {}

NumberStart(s) == CHOOSE i \in NumberStarts(s) : \A j \in NumberStarts(s) : i <= j

\* the end of the run of digits of s that starts at i (i - 1 if none)
RECURSIVE DigitRunEnd(_, _)
DigitRunEnd(s, i) == IF DigitAt(s, i) THEN DigitRunEnd(s, i + 1) ELSE i - 1

RECURSIVE ParseNat(_)
ParseNat(s) ==
    IF s = "" THEN 0
    ELSE ParseNat(SubSeq(s, 1, Len(s) - 1)) * 10 + DigitVal(SubSeq(s, Len(s), Len(s)))

FirstNumber(s) ==
    LET st == NumberStart(s)
        neg == SubSeq(s, st, st) = "-"
        d0 == IF neg THEN st + 1 ELSE st
        d1 == DigitRunEnd(s, d0)
        dot == d1 + 1 <= Len(s) /\ SubSeq(s, d1 + 1, d1 + 1) = "."
        f1 == IF dot THEN DigitRunEnd(s, d1 + 2) ELSE d1
        fr == IF dot THEN SubSeq(s, d1 + 2, f1) ELSE ""
    IN  [neg |-> neg,
         int |-> ParseNat(SubSeq(s, d0, d1)),
         frac |-> \E i \in 1..Len(fr) : SubSeq(fr, i, i) # "0"]

\* abs(num) > bound, and num > bound, for a number read by FirstNumber
AbsGreater(num, bound) == num.int > bound \/ (num.int = bound /\ num.frac)
Greater(num, bound) == ~num.neg /\ AbsGreater(num, bound)

(***************************************************************************)
(* Section 2.  Values and records.                                          *)
(*                                                                         *)
(* An Optional[...] field of the code is a value [k, s, n]: None, a str,   *)
(* an int, or a float (n hundredths).                                      *)
(***************************************************************************)

None == [k |-> "none", s |-> "", n |-> 0]
StrV(s) == [k |-> "str", s |-> s, n |-> 0]
IntV(n) == [k |-> "int", s |-> "", n |-> n]
FloatV(h) == [k |-> "float", s |-> "", n |-> h]

\* bool(v)
Truthy(v) ==
    CASE v.k = "none" -> FALSE
      [] v.k = "str" -> v.s # ""
      [] OTHER -> v.n # 0

\* isinstance(v, (int, float))
IsNumber(v) == v.k \in {"int", "float"}

\* str(v), v not None
PyStr(v) ==
    CASE v.k = "str" -> v.s
      [] v.k = "int" -> IntToStr(v.n)
      [] OTHER -> FloatToStr(v.n)

\* Confidences are counted in 1/Scale.  Scale is a multiple of every
\* denominator the code's arithmetic produces on the chains of the model.
Scale == 6 * 10000
Tenths(k) == k * (Scale \div 10)
Hundredths(k) == k * (Scale \div 100)

\* the set of the elements of a sequence
Range(q) == {q[i] : i \in 1..Len(q)}

Min2(a, b) == IF a < b THEN a ELSE b
Max2(a, b) == IF a > b THEN a ELSE b
MaxOf(S) == CHOOSE x \in S : \A y \in S : y <= x
MinOf(S) == CHOOSE x \in S : \A y \in S : x <= y

RECURSIVE SumSeq(_)
SumSeq(q) == IF q = <<>> THEN 0 ELSE Head(q) + SumSeq(Tail(q))

\* the first option, in list order, that P accepts: a Python
\* "for opt in options: if P(opt): return opt"; None if the loop falls through
FirstMatch(options, P(_)) ==
    LET I == {i \in 1..Len(options) : P(options[i])}
    IN  IF I = {} THEN None ELSE StrV(options[MinOf(I)])

\* ReasoningStep(step_number, action, thought) with the dataclass defaults
NewStep(number, action, thought) ==
    [step_number |-> number, action |-> action, thought |-> thought,
     tool_used |-> None, tool_output |-> None, result |-> None,
     verified |-> FALSE, confidence |-> 0]

(***************************************************************************)
(* Section 3.  The Self-Corrector (agents/self_corrector.py).               *)
(***************************************************************************)

ValidateStatusStrings ==
    {"processed", "calculated", "verified", "identified", "optimal_solution",
     "conclusion_reached", "equation_ready", "options_evaluated",
     "pattern_identified"}

\* the text of the leftmost number of s, and str(float(...)) of it
FirstNumberText(s) ==
    LET st == NumberStart(s)
        d0 == IF SubSeq(s, st, st) = "-" THEN st + 1 ELSE st
        d1 == DigitRunEnd(s, d0)
        dot == d1 + 1 <= Len(s) /\ SubSeq(s, d1 + 1, d1 + 1) = "."
        f1 == IF dot THEN DigitRunEnd(s, d1 + 2) ELSE d1
    IN  IF dot /\ FirstNumber(s).frac THEN SubSeq(s, st, f1)
        ELSE SubSeq(s, st, d1) \o ".0"

\* validate_result(result, problem, options) -> (is_valid, correction_message);
\* pct is "'percentage' in problem.lower() or '%' in problem"; the message
\* None is [msg |-> ""]
validate_result(result, pct, options) ==
    LET result_lower == Strip(Lower(result))
        exact == FirstMatch(options, LAMBDA opt : Strip(result) = Strip(opt))
        partial == FirstMatch(options,
                     LAMBDA opt : \/ Contains(Lower(result), Lower(opt))
                                  \/ Contains(Lower(opt), Lower(result)))
        in_range(num, text) ==
            IF AbsGreater(num, 1000000)
            THEN [valid |-> FALSE, msg |-> "Unreasonably large number: " \o text]
            ELSE IF pct /\ Greater(num, 100)
            THEN [valid |-> FALSE, msg |-> "Percentage > 100%: " \o text]
            ELSE [valid |-> TRUE, msg |-> ""]
    IN  IF result = "" THEN [valid |-> FALSE, msg |-> "Empty result"]
        ELSE IF result_lower \in ValidateStatusStrings
        THEN [valid |-> FALSE,
              msg |-> "Status string '" \o result \o "' is not a valid answer"]
        ELSE IF exact # None THEN [valid |-> TRUE, msg |-> ""]
        ELSE IF partial # None
        THEN [valid |-> TRUE,
              msg |-> "Consider using full option: '" \o partial.s \o "'"]
        ELSE IF HasNumber(result)
        THEN in_range(FirstNumber(result), FirstNumberText(result))
        ELSE [valid |-> TRUE, msg |-> ""]

\* the first loop of suggest_correction from step i down: the most recent
\* usable tool_output, matched against the options
RECURSIVE SuggestFromOutputs(_, _, _)
SuggestFromOutputs(steps, i, options) ==
    IF i = 0 THEN None
    ELSE LET out == steps[i].tool_output
         IN  IF ~Truthy(out) THEN SuggestFromOutputs(steps, i - 1, options)
             ELSE IF out.k = "str"
                     /\ Lower(out.s) \in {"processed", "calculated", "verified"}
             THEN SuggestFromOutputs(steps, i - 1, options)
             ELSE LET tool_output_str == PyStr(out)
                      m == FirstMatch(options,
                             LAMBDA opt :
                               \/ Contains(Lower(tool_output_str), Lower(opt))
                               \/ Contains(Lower(opt), Lower(tool_output_str)))
                  IN  IF m # None THEN m ELSE StrV(tool_output_str)

\* the second loop of suggest_correction from step i down: the most recent
\* meaningful result
RECURSIVE SuggestFromResults(_, _, _)
SuggestFromResults(steps, i, options) ==
    IF i = 0 THEN None
    ELSE LET res == steps[i].result
         IN  IF ~Truthy(res) THEN SuggestFromResults(steps, i - 1, options)
             ELSE IF Lower(res.s) \in
                       {"processed", "calculated", "verified", "identified"}
             THEN SuggestFromResults(steps, i - 1, options)
             ELSE LET m == FirstMatch(options,
                             LAMBDA opt : \/ Contains(res.s, opt)
                                          \/ Contains(opt, res.s))
                  IN  IF m # None THEN m ELSE res

\* suggest_correction(result, problem, reasoning_steps, options) -> Optional[str]
suggest_correction(result, pct, steps, options) ==
    LET a == SuggestFromOutputs(steps, Len(steps), options)
        b == SuggestFromResults(steps, Len(steps), options)
    IN  IF a # None THEN a
        ELSE IF b # None THEN b
        ELSE IF options # <<>> THEN StrV(options[1])
        ELSE None

ReliableTools ==
    {"calculator", "symbolic_solver", "geometry_calculator",
     "constraint_solver", "pattern_analyzer"}

\* the confidence as it is, unclamped
Unclamped(c) == c

\* max(0.1, min(0.95, confidence))
ClampConfidence(c) == Max2(Tenths(1), Min2(Hundredths(95), c))

\* calculate_confidence(result, problem, reasoning_steps, verification_result);
\* verified is "verification_result and verification_result.get('is_valid')"
calculate_confidence(result, pct, steps, verified) ==
    LET tools_used == {steps[i].tool_used.s :
                         i \in {j \in 1..Len(steps) : Truthy(steps[j].tool_used)}}
        idx == {i \in 1..Len(steps) : steps[i].confidence > 0}
        total == SumSeq([i \in 1..Len(steps) |->
                           IF i \in idx THEN steps[i].confidence ELSE 0])
        validated(is_valid) ==
            IF is_valid THEN Tenths(5) + Tenths(2) ELSE Tenths(5) - Tenths(1)
        averaged(confidence) ==
            IF idx # {} THEN (confidence + total \div Cardinality(idx)) \div 2
            ELSE confidence
    IN  ClampConfidence(averaged(
            validated(validate_result(result, pct, <<>>).valid)
            + Tenths(1) * Cardinality(tools_used \cap ReliableTools)
            + (IF verified THEN Tenths(2) ELSE 0)))

\* self_correct(preliminary_answer, problem, reasoning_steps, options)
\*   -> (corrected_answer, correction_reason, confidence)
self_correct(preliminary_answer, pct, steps, options) ==
    LET decide(v, suggested) ==
            LET corrects == /\ ~v.valid /\ Truthy(suggested)
                            /\ suggested.s # preliminary_answer
                final_answer == IF corrects THEN suggested.s ELSE preliminary_answer
                reason == IF v.valid THEN ""
                          ELSE IF corrects
                          THEN "Corrected: " \o v.msg \o " -> Using " \o suggested.s
                          ELSE "Warning: " \o v.msg
            IN  [answer |-> final_answer, reason |-> reason,
                 confidence |-> calculate_confidence(final_answer, pct, steps, FALSE)]
    IN  decide(validate_result(preliminary_answer, pct, options),
               suggest_correction(preliminary_answer, pct, steps, options))

(***************************************************************************)
(* Section 4.  Answer selection: ReasonerAgent._determine_final_answer and *)
(* AgenticReasoningSystem._refine_answer.                                  *)
(***************************************************************************)

DetermineStatusStrings ==
    {"processed", "calculated", "verified", "optimal_solution",
     "conclusion_reached", "equation_ready", "pattern_identified",
     "facts_extracted", "goal_identified", "logic_applied",
     "constraints_identified", "approaches_listed", "evaluated",
     "facts", "proven", "3d_shape", "cube", "sphere", "cylinder"}

UnableToDetermine == "Unable to determine answer"

\* a tool_output the first loop of _determine_final_answer answers from
UsableOutput(out) ==
    \/ IsNumber(out)
    \/ out.k = "str" /\ out.s \notin DetermineStatusStrings

\* the answer the first loop gives from tool_output out
AnswerFromOutput(out, options) ==
    IF IsNumber(out)
    THEN LET answer_str == IF out.k = "float" /\ IsInteger(out.n)
                           THEN IntToStr(out.n \div 100) ELSE PyStr(out)
             m == FirstMatch(options,
                    LAMBDA opt : \/ answer_str = opt
                                 \/ Contains(answer_str, opt)
                                 \/ StartsWith(opt, answer_str))
         IN  IF m # None THEN m.s ELSE answer_str
    ELSE LET m == FirstMatch(options,
                    LAMBDA opt : \/ Contains(Lower(out.s), Lower(opt))
                                 \/ Contains(Lower(opt), Lower(out.s)))
         IN  IF m # None THEN m.s ELSE out.s

\* the second loop of _determine_final_answer from step i down; None if it
\* falls through
RECURSIVE AnswerFromResults(_, _, _)
AnswerFromResults(steps, i, options) ==
    IF i = 0 THEN None
    ELSE LET res == steps[i].result
         IN  IF ~Truthy(res) \/ res.s \in DetermineStatusStrings
             THEN AnswerFromResults(steps, i - 1, options)
             ELSE IF Contains(",", res.s) /\ ~AnyAlpha(RemoveCommas(res.s))
             THEN AnswerFromResults(steps, i - 1, options)
             ELSE LET m == FirstMatch(options,
                             LAMBDA opt :
                               \/ Contains(Strip(Lower(res.s)), Lower(opt))
                               \/ Contains(Lower(opt), Strip(Lower(res.s))))
                  IN  IF m # None THEN m
                      ELSE IF Len(res.s) > 2 THEN res
                      ELSE AnswerFromResults(steps, i - 1, options)

\* the third priority: the option the oracle's analysis names; analysis is
\* None when interpret_answer_options raised
AnswerFromOracle(options, analysis) ==
    IF analysis = None THEN None
    ELSE LET I == {i \in 1..Len(options) :
                     \/ Contains("option " \o IntToStr(i), Lower(analysis.s))
                     \/ Contains(Lower(options[i]), Lower(analysis.s))}
         IN  IF I = {} THEN None ELSE StrV(options[MinOf(I)])

\* _determine_final_answer without its default to the first option
determine_without_default(steps, options, use_mistral, analysis) ==
    LET outs == {i \in 1..Len(steps) : UsableOutput(steps[i].tool_output)}
        r == AnswerFromResults(steps, Len(steps), options)
        o == IF options # <<>> /\ use_mistral
             THEN AnswerFromOracle(options, analysis) ELSE None
    IN  IF outs # {} THEN AnswerFromOutput(steps[MaxOf(outs)].tool_output, options)
        ELSE IF r # None THEN r.s
        ELSE IF o # None THEN o.s
        ELSE UnableToDetermine

\* the answer is the result of the first step
first_result(steps, options, use_mistral, analysis) ==
    IF Len(steps) > 0 /\ Truthy(steps[1].result) THEN steps[1].result.s
    ELSE UnableToDetermine

\* _determine_final_answer(chain, options); use_mistral is
\* "self.use_mistral and self.tool_engine.mistral_tool"
determine_final_answer(steps, options, use_mistral, analysis) ==
    LET outs == {i \in 1..Len(steps) : UsableOutput(steps[i].tool_output)}
        r == AnswerFromResults(steps, Len(steps), options)
        o == IF options # <<>> /\ use_mistral
             THEN AnswerFromOracle(options, analysis) ELSE None
    IN  IF outs # {} THEN AnswerFromOutput(steps[MaxOf(outs)].tool_output, options)
        ELSE IF r # None THEN r.s
        ELSE IF o # None THEN o.s
        ELSE IF options # <<>> THEN options[1]
        ELSE UnableToDetermine

\* _refine_answer with the containment rules tried before the exact match
refine_containment_first(preliminary_answer, options) ==
    LET exact == FirstMatch(options,
                   LAMBDA opt : Strip(Lower(preliminary_answer)) = Strip(Lower(opt)))
        inOpt == FirstMatch(options,
                   LAMBDA opt : Contains(Lower(preliminary_answer), Lower(opt)))
        optIn == FirstMatch(options,
                   LAMBDA opt : Contains(Lower(opt), Lower(preliminary_answer)))
    IN  IF options = <<>> THEN preliminary_answer
        ELSE IF inOpt # None THEN inOpt.s
        ELSE IF optIn # None THEN optIn.s
        ELSE IF exact # None THEN exact.s
        ELSE preliminary_answer

RefineStatusStrings == {"processed", "calculated", "verified", "Another answer"}

InOptions(x, options) == \E i \in 1..Len(options) : options[i] = x

\* _refine_answer(preliminary_answer, options, verification)
refine_answer(preliminary_answer, options) ==
    LET exact == FirstMatch(options,
                   LAMBDA opt : Strip(Lower(preliminary_answer)) = Strip(Lower(opt)))
        inOpt == FirstMatch(options,
                   LAMBDA opt : Contains(Lower(preliminary_answer), Lower(opt)))
        optIn == FirstMatch(options,
                   LAMBDA opt : Contains(Lower(opt), Lower(preliminary_answer)))
        words == FirstMatch(options,
                   LAMBDA opt : Words(Lower(opt))
                                  \cap Words(Lower(preliminary_answer)) # {})
    IN  IF options = <<>> THEN preliminary_answer
        ELSE IF exact # None THEN exact.s
        ELSE IF inOpt # None THEN inOpt.s
        ELSE IF optIn # None THEN optIn.s
        ELSE IF preliminary_answer \notin RefineStatusStrings /\ words # None
        THEN words.s
        ELSE IF /\ \/ preliminary_answer \in RefineStatusStrings
                   \/ preliminary_answer = ""
                   \/ preliminary_answer = UnableToDetermine
                /\ InOptions("Another answer", options)
        THEN "Another answer"
        ELSE preliminary_answer

(***************************************************************************)
(* Section 5.  The Planner (agents/planner.py).                             *)
(***************************************************************************)

\* the values of the ProblemType enum, in definition order
ProblemType ==
    <<"spatial_reasoning", "mathematical", "logical", "sequence",
      "optimization", "lateral_thinking", "classic_riddle">>

\* PlannerAgent.problem_keywords, in the order of ProblemType
problem_keywords ==
    << {"cube", "3d", "surface", "volume", "faces", "edges", "corner",
        "diagonal", "geometry", "shape", "rotate", "painted"},
       {"calculate", "equation", "sum", "multiply", "divide", "percentage",
        "ratio", "average", "total", "machines"},
       {"if", "then", "true", "false", "statement", "consistent",
        "contradiction", "must be", "cannot be", "machine", "button"},
       {"sequence", "pattern", "next number", "series", "follows", "continue",
        "missing", "dots"},
       {"minimize", "maximize", "optimal", "best", "schedule", "efficiency",
        "shortest", "longest", "most", "least", "planning", "days", "hours",
        "tasks"},
       {"how can", "possible", "unexpected", "strange", "shoots", "underwater",
        "hangs", "dies", "survived"},
       {"riddle", "what am i", "puzzle", "classic", "race", "overtake",
        "position", "gold coins", "will", "divide"} >>

\* s.replace(" ", "_")
RECURSIVE SpacesToUnderscores(_)
SpacesToUnderscores(s) ==
    IF s = "" THEN ""
    ELSE (IF Head(s) = " " THEN "_" ELSE Head(s)) \o SpacesToUnderscores(Tail(s))

\* classify_problem(problem, topic); topic "" is "no topic"
classify_problem(problem, topic) ==
    LET topic_lower == SpacesToUnderscores(Lower(topic))
        hinted == {i \in 1..Len(ProblemType) :
                     \/ Contains(ProblemType[i], topic_lower)
                     \/ Contains(topic_lower, ProblemType[i])}
        problem_lower == Lower(problem)
        scores == [i \in 1..Len(ProblemType) |->
                     Cardinality({kw \in problem_keywords[i] :
                                    Contains(kw, problem_lower)})]
        best == MaxOf(Range(scores))
        first == MinOf({i \in 1..Len(ProblemType) : scores[i] = best})
    IN  IF topic # "" /\ hinted # {} THEN ProblemType[MinOf(hinted)]
        ELSE IF best > 0 THEN ProblemType[first]
        ELSE "logical"

\* select_strategy(problem_type, problem)
select_strategy(problem_type) ==
    CASE problem_type = "spatial_reasoning" -> "spatial_visualization"
      [] problem_type = "mathematical" -> "direct_calculation"
      [] problem_type = "logical" -> "step_by_step_logic"
      [] problem_type = "sequence" -> "pattern_recognition"
      [] problem_type = "optimization" -> "constraint_satisfaction"
      [] OTHER -> "creative_thinking"

\* decompose_problem(problem, problem_type)
decompose_problem(problem_type) ==
    CASE problem_type = "spatial_reasoning" ->
           <<"Identify the geometric shape/structure",
             "Determine relevant dimensions",
             "Apply spatial formulas or logic",
             "Calculate the answer">>
      [] problem_type = "mathematical" ->
           <<"Extract numerical values and relationships",
             "Set up equations or formulas",
             "Perform calculations",
             "Verify answer against constraints">>
      [] problem_type = "sequence" ->
           <<"Identify the given sequence",
             "Analyze differences or ratios",
             "Determine the pattern rule",
             "Apply rule to find next term">>
      [] problem_type = "optimization" ->
           <<"Identify constraints and objectives",
             "List all possible approaches",
             "Evaluate each option",
             "Select optimal solution">>
      [] problem_type = "logical" ->
           <<"Identify given facts and conditions",
             "Determine what needs to be proven",
             "Apply logical rules step by step",
             "Reach conclusion">>
      [] OTHER ->
           <<"Identify literal interpretation",
             "Consider alternative meanings",
             "Apply creative thinking",
             "Find unconventional solution">>

\* identify_tools(problem_type, problem)
identify_tools(problem_type, problem) ==
    <<"reasoning_engine">>
    \o (IF problem_type \in {"mathematical", "spatial_reasoning"}
        THEN <<"calculator", "symbolic_solver">> ELSE <<>>)
    \o (IF problem_type = "sequence"
        THEN <<"pattern_analyzer", "calculator">> ELSE <<>>)
    \o (IF problem_type = "optimization"
        THEN <<"constraint_solver", "calculator">> ELSE <<>>)
    \o (IF Contains("code", Lower(problem)) \/ Contains("program", Lower(problem))
        THEN <<"code_executor">> ELSE <<>>)
    \o <<"verifier">>

\* create_plan(problem, topic): the fields of ReasoningPlan the pipeline reads
create_plan(problem, topic) ==
    LET problem_type == classify_problem(problem, topic)
    IN  [problem_type |-> problem_type,
         strategy |-> select_strategy(problem_type),
         sub_problems |-> decompose_problem(problem_type),
         required_tools |-> identify_tools(problem_type, problem)]

(***************************************************************************)
(* Section 6.  The Verifier (agents/verifier.py).                           *)
(*                                                                         *)
(* Confidences are exact rationals here; the code computes them in binary  *)
(* floating point, which differs from them by less than 1/Scale.           *)
(***************************************************************************)

\* max(0.0, min(1.0, c))
ClampUnit(c) == Max2(0, Min2(Scale, c))

\* verify_step(step, problem, plan); a tool_output of the model is finite
verify_step(step) ==
    LET empty == ~Truthy(step.result) /\ ~Truthy(step.tool_output)
        issues == IF empty THEN <<"Step produced no result">> ELSE <<>>
        c1 == IF empty THEN Tenths(3) ELSE Tenths(8)
        noTool == Contains("calculate", Lower(step.action)) /\ ~Truthy(step.tool_used)
        c2 == IF noTool THEN c1 - Tenths(1) ELSE c1
        short == step.thought = "" \/ Len(step.thought) < 10
        c3 == IF short THEN c2 - Tenths(1) ELSE c2
    IN  [is_valid |-> issues = <<>> /\ c3 > Tenths(5),
         confidence |-> ClampUnit(c3),
         issues |-> issues,
         suggestions |->
           (IF noTool THEN <<"Consider using calculator tool for calculations">>
            ELSE <<>>)
           \o (IF short THEN <<"Add more detailed reasoning">> ELSE <<>>)]

\* _steps_connected(step1, step2)
steps_connected(step1, step2) ==
    IF Truthy(step1.result) /\ step2.thought # ""
    THEN Contains(step1.result.s, Lower(step2.thought))
    ELSE TRUE

RECURSIVE Flatten(_)
Flatten(qq) == IF qq = <<>> THEN <<>> ELSE Head(qq) \o Flatten(Tail(qq))

\* verify_chain that marks every step verified and clears its result
verify_chain_clearing(chain) ==
    [steps |-> [i \in 1..Len(chain.steps) |->
                  [chain.steps[i] EXCEPT !.verified = TRUE, !.result = None]],
     verification |-> [is_valid |-> TRUE, confidence |-> Scale, issues |-> <<>>,
                       suggestions |-> <<>>]]

\* verify_chain with a weak connection between adjacent steps raised as an
\* issue
verify_chain_strict(chain) ==
    LET n == Len(chain.steps)
        incomplete == n < Len(chain.plan.sub_problems)
        noAnswer == ~Truthy(chain.final_answer)
                    \/ chain.final_answer = StrV(UnableToDetermine)
        flow(steps) ==
            [i \in 1..(IF n > 1 THEN n - 1 ELSE 0) |->
               IF steps_connected(steps[i], steps[i + 1]) THEN <<>>
               ELSE <<"Steps " \o IntToStr(i) \o " and " \o IntToStr(i + 1)
                      \o " may not be well connected">>]
        result(steps, all_issues, all_suggestions, step_confidences) ==
            LET mean == IF step_confidences # <<>>
                        THEN SumSeq(step_confidences) \div Len(step_confidences)
                        ELSE Tenths(5)
                overall_confidence ==
                    IF all_issues # <<>> THEN (mean * 7) \div 10 ELSE mean
            IN  [steps |-> steps,
                 verification |->
                   [is_valid |-> all_issues = <<>> /\ overall_confidence > Tenths(6),
                    confidence |-> overall_confidence,
                    issues |-> all_issues,
                    suggestions |-> all_suggestions \o Flatten(flow(steps))]]
        loop(r) ==
            result([i \in 1..n |->
                      [chain.steps[i] EXCEPT !.verified = r[i].is_valid,
                                             !.confidence = r[i].confidence]],
                   Flatten([i \in 1..n |-> r[i].issues])
                   \o (IF incomplete THEN <<"Not all sub-problems were addressed">>
                       ELSE <<>>)
                   \o (IF noAnswer THEN <<"No valid final answer determined">>
                       ELSE <<>>)
                   \o Flatten(flow(chain.steps)),
                   Flatten([i \in 1..n |-> r[i].suggestions]),
                   [i \in 1..n |-> r[i].confidence]
                   \o (IF noAnswer THEN <<0>> ELSE <<>>))
    IN  loop([i \in 1..n |-> verify_step(chain.steps[i])])

\* verify_chain(chain): the chain's steps as the loop leaves them, and the
\* VerificationResult
verify_chain(chain) ==
    LET n == Len(chain.steps)
        incomplete == n < Len(chain.plan.sub_problems)
        noAnswer == ~Truthy(chain.final_answer)
                    \/ chain.final_answer = StrV(UnableToDetermine)
        flow(steps) ==
            [i \in 1..(IF n > 1 THEN n - 1 ELSE 0) |->
               IF steps_connected(steps[i], steps[i + 1]) THEN <<>>
               ELSE <<"Steps " \o IntToStr(i) \o " and " \o IntToStr(i + 1)
                      \o " may not be well connected">>]
        result(steps, all_issues, all_suggestions, step_confidences) ==
            LET mean == IF step_confidences # <<>>
                        THEN SumSeq(step_confidences) \div Len(step_confidences)
                        ELSE Tenths(5)
                overall_confidence ==
                    IF all_issues # <<>> THEN (mean * 7) \div 10 ELSE mean
            IN  [steps |-> steps,
                 verification |->
                   [is_valid |-> all_issues = <<>> /\ overall_confidence > Tenths(6),
                    confidence |-> overall_confidence,
                    issues |-> all_issues,
                    suggestions |-> all_suggestions \o Flatten(flow(steps))]]
        loop(r) ==
            result([i \in 1..n |->
                      [chain.steps[i] EXCEPT !.verified = r[i].is_valid,
                                             !.confidence = r[i].confidence]],
                   Flatten([i \in 1..n |-> r[i].issues])
                   \o (IF incomplete THEN <<"Not all sub-problems were addressed">>
                       ELSE <<>>)
                   \o (IF noAnswer THEN <<"No valid final answer determined">>
                       ELSE <<>>),
                   Flatten([i \in 1..n |-> r[i].suggestions]),
                   [i \in 1..n |-> r[i].confidence]
                   \o (IF noAnswer THEN <<0>> ELSE <<>>))
    IN  loop([i \in 1..n |-> verify_step(chain.steps[i])])

\* calculate_confidence_score(chain, verification)
calculate_confidence_score(chain, verification) ==
    LET nsub == Len(chain.plan.sub_problems)
        plan_completion == IF nsub > 0 THEN (Len(chain.steps) * Scale) \div nsub
                           ELSE Scale
        steps_with_tools == Cardinality({i \in 1..Len(chain.steps) :
                                           Truthy(chain.steps[i].tool_used)})
        expected_tools == Cardinality({i \in 1..Len(chain.plan.required_tools) :
                              chain.plan.required_tools[i] # "reasoning_engine"})
        tool_usage == IF expected_tools > 0
                      THEN (steps_with_tools * Scale) \div expected_tools
                      ELSE Tenths(8)
        critical == \E i \in 1..Len(verification.issues) :
                       Contains("error", Lower(verification.issues[i]))
        confidence == (4 * verification.confidence
                       + 2 * Min2(Scale, plan_completion)
                       + 2 * Min2(Scale, tool_usage)
                       + 2 * (IF critical THEN Tenths(3) ELSE Scale)) \div 10
    IN  ClampUnit(confidence)

(***************************************************************************)
(* Section 7.  The solver pool.                                             *)
(*                                                                         *)
(* The solvers and the advisory oracle (tools/) are the environment of the *)
(* pipeline.  A world fixes, for one problem, what each of them does when  *)
(* called: it returns None (no match), returns a value, or raises.  The    *)
(* solvers are deterministic, so a world is a function of the problem.     *)
(***************************************************************************)

Raise(msg) == [k |-> "raise", s |-> msg, n |-> 0]

\* the solvers of _handle_spatial_step, in calling order
SpatialSolvers ==
    <<"solve_logical_trap_problem", "solve_cube_ant_problem",
      "solve_pizza_cutting_problem", "solve_geometry", "extract_cube_size",
      "extract_painted_faces_query">>

\* the cascade of _handle_mathematical_step, in calling order
MathSolvers ==
    <<"solve_work_rate_problem", "solve_machine_production_problem",
      "solve_switch_machine_problem", "solve_machine_time_combined",
      "solve_pipeline_scheduling", "solve_gear_rotations",
      "calculate_worst_case_presses", "solve_constraints",
      "calculator.evaluate">>

SequenceSolvers == <<"predict_next">>

\* the cascade of _handle_optimization_step, in calling order
OptimizationSolvers ==
    <<"solve_task_scheduling_enhanced", "solve_travel_optimization",
      "solve_task_scheduling", "solve_constraints">>

\* the cascade of _handle_logical_step, in calling order
LogicalSolvers == <<"solve_combinatorial_problem", "find_missing_in_sequence">>

\* the advisory oracle (tools/mistral_tool.py)
OracleCalls == <<"interpret_answer_options", "enhance_thought">>

SolverNames ==
    Range(SpatialSolvers) \cup Range(MathSolvers) \cup Range(SequenceSolvers)
    \cup Range(OptimizationSolvers) \cup Range(LogicalSolvers)
    \cup Range(OracleCalls)

\* the solvers a plan of this type calls
SolversOf(problem_type) ==
    CASE problem_type = "spatial_reasoning" -> Range(SpatialSolvers)
      [] problem_type = "mathematical" -> Range(MathSolvers)
      [] problem_type = "sequence" -> Range(SequenceSolvers)
      [] problem_type = "optimization" -> Range(OptimizationSolvers)
      [] problem_type = "logical" -> Range(LogicalSolvers)
      [] OTHER -> {}

\* What a solver does when nothing special happens: the pattern solvers
\* return None, the calculator computes, the oracle is unavailable (its
\* wrappers then answer with their fixed fallback texts).
Unavailable == StrV("unavailable")
Computes == StrV("computes")
Default(solver) ==
    CASE solver = "calculator.evaluate" -> Computes
      [] solver \in Range(OracleCalls) -> Unavailable
      [] OTHER -> None

\* A value each solver can return, taken from its return statements; the
\* floats have binary-exact fractions.
Returns(solver) ==
    CASE solver = "solve_logical_trap_problem" ->
           {StrV("Nowhere, because it's a logical trap")}
      [] solver = "solve_cube_ant_problem" -> {StrV("108")}
      [] solver = "solve_pizza_cutting_problem" ->
           {StrV("Cutting the pizza into quarters")}
      [] solver = "solve_geometry" -> {FloatV(11350)}
      [] solver = "extract_cube_size" -> {IntV(3)}
      [] solver = "extract_painted_faces_query" -> {IntV(2)}
      [] solver = "solve_work_rate_problem" -> {StrV("4 hours")}
      [] solver = "solve_machine_production_problem" -> {StrV("Machine B")}
      [] solver = "solve_switch_machine_problem" ->
           {StrV("Flip Switch 1, wait, flip it back")}
      [] solver = "solve_machine_time_combined" -> {FloatV(400), FloatV(250)}
      [] solver = "solve_pipeline_scheduling" -> {StrV("A -> B -> C")}
      [] solver = "solve_gear_rotations" -> {StrV("Gear B: 20")}
      [] solver = "calculate_worst_case_presses" -> {IntV(6)}
      [] solver = "solve_constraints" -> {StrV("3 days")}
      [] solver = "calculator.evaluate" -> {}
      [] solver = "predict_next" -> {FloatV(800)}
      [] solver = "solve_task_scheduling_enhanced" -> {StrV("6 hours")}
      [] solver = "solve_travel_optimization" -> {StrV("A-B-C-A")}
      [] solver = "solve_task_scheduling" -> {IntV(3)}
      [] solver = "solve_combinatorial_problem" -> {StrV("24")}
      [] solver = "find_missing_in_sequence" -> {StrV("J")}
      [] solver = "interpret_answer_options" ->
           {StrV("Option 2 fits best"), StrV("It takes 4 hours")}
      [] solver = "enhance_thought" -> {StrV("Think."), StrV("")}
      [] OTHER -> {}

\* the oracle's wrappers catch every failure of the call themselves
Raises(solver) ==
    IF solver \in Range(OracleCalls) THEN {} ELSE {Raise("division by zero")}

\* what a solver can do other than Default
Deviations(solver) == Returns(solver) \cup Raises(solver)

\* the world in which nothing special happens
QuietWorld == [solver \in SolverNames |-> Default(solver)]

\* the worlds in which the solvers of D deviate
RECURSIVE Deviate(_, _)
Deviate(W, D) ==
    IF D = {} THEN W
    ELSE LET d == CHOOSE x \in D : TRUE
         IN  Deviate({[w EXCEPT ![d] = v] : w \in W, v \in Deviations(d)},
                     D \ {d})

\* the subsets of S of at most n elements
RECURSIVE SubsetsUpTo(_, _)
SubsetsUpTo(S, n) ==
    IF n = 0 THEN {{}}
    ELSE LET T == SubsetsUpTo(S, n - 1)
         IN  T \cup {t \cup {x} : t \in T, x \in S}

(***************************************************************************)
(* Section 8.  The Step Executor (agents/reasoner.py): the handlers.        *)
(*                                                                         *)
(* A handler returns [exc, step]: the step as it leaves it, and the        *)
(* exception that ended it, if one did.  Characters outside ASCII in the   *)
(* code's thoughts are written in ASCII.                                   *)
(***************************************************************************)

Ok(step) == [exc |-> None, step |-> step]
Throw(msg, step) == [exc |-> Raise(msg), step |-> step]

IsRaise(out) == out.k = "raise"

\* the position in names of the first solver that does not return None in
\* world w, Len(names) + 1 if all do
FirstActive(w, names) ==
    MinOf({i \in 1..Len(names) : w[names[i]] # None} \cup {Len(names) + 1})

\* the end of the match of -?\d+\.?\d* that starts at st
NumberEnd(s, st) ==
    LET d0 == IF SubSeq(s, st, st) = "-" THEN st + 1 ELSE st
        d1 == DigitRunEnd(s, d0)
    IN  IF d1 + 1 <= Len(s) /\ SubSeq(s, d1 + 1, d1 + 1) = "."
        THEN DigitRunEnd(s, d1 + 2) ELSE d1

\* re.findall(r'-?\d+\.?\d*', s) from position i on
RECURSIVE FindNumbersFrom(_, _)
FindNumbersFrom(s, i) ==
    IF i > Len(s) THEN <<>>
    ELSE IF DigitAt(s, i) \/ (SubSeq(s, i, i) = "-" /\ DigitAt(s, i + 1))
    THEN <<SubSeq(s, i, NumberEnd(s, i))>> \o FindNumbersFrom(s, NumberEnd(s, i) + 1)
    ELSE FindNumbersFrom(s, i + 1)

FindNumbers(s) == FindNumbersFrom(s, 1)

\* re.findall(r'\d+', s) from position i on
RECURSIVE FindDigitsFrom(_, _)
FindDigitsFrom(s, i) ==
    IF i > Len(s) THEN <<>>
    ELSE IF DigitAt(s, i)
    THEN <<SubSeq(s, i, DigitRunEnd(s, i))>> \o FindDigitsFrom(s, DigitRunEnd(s, i) + 1)
    ELSE FindDigitsFrom(s, i + 1)

FindDigits(s) == FindDigitsFrom(s, 1)

\* sep.join(q)
RECURSIVE Join(_, _)
Join(sep, q) ==
    IF q = <<>> THEN ""
    ELSE IF Len(q) = 1 THEN q[1]
    ELSE q[1] \o sep \o Join(sep, Tail(q))

\* float(tok) in hundredths, tok a match of -?\d+\.?\d* with at most two
\* decimals
ToFloat(tok) ==
    LET neg == SubSeq(tok, 1, 1) = "-"
        d0 == IF neg THEN 2 ELSE 1
        d1 == DigitRunEnd(tok, d0)
        f1 == DigitRunEnd(tok, d1 + 2)
        dec == IF d1 + 2 <= f1 THEN SubSeq(tok, d1 + 2, f1) ELSE ""
        frac == IF dec = "" THEN 0
                ELSE IF Len(dec) = 1 THEN 10 * ParseNat(dec)
                ELSE ParseNat(SubSeq(dec, 1, 2))
        h == 100 * ParseNat(SubSeq(tok, d0, d1)) + frac
    IN  IF neg THEN -h ELSE h

\* a * b on hundredths
Mul(a, b) ==
    IF a % 100 = 0 THEN (a \div 100) * b
    ELSE IF b % 100 = 0 THEN a * (b \div 100)
    ELSE (a * b) \div 100

\* str(int(x) if x == int(x) else x), x a float
IntOrFloatStr(h) == IF IsInteger(h) THEN IntToStr(h \div 100) ELSE FloatToStr(h)

\* str(list) of a list of str
StrListRepr(q) == "[" \o Join(", ", [i \in 1..Len(q) |-> "'" \o q[i] \o "'"]) \o "]"

\* str(list) of a list of float
FloatListRepr(q) == "[" \o Join(", ", [i \in 1..Len(q) |-> FloatToStr(q[i])]) \o "]"

\* a branch that sets tool_output, result, thought and tool_used, and returns
Fired(step, out, result, thought, tool) ==
    Ok([step EXCEPT !.tool_output = out, !.result = StrV(result),
                    !.thought = thought, !.tool_used = StrV(tool)])

\* _handle_spatial_step(step, problem, sub_problem)
handle_spatial_step(step, problem, sub_problem, w) ==
    LET sub == Lower(sub_problem)
        problem_lower == Lower(problem)
        first == FirstActive(w, SubSeq(SpatialSolvers, 1, 3))
        found == w[SpatialSolvers[first]]
        shape == IF Contains("cube", problem_lower) THEN <<"Cube", "cube">>
                 ELSE IF Contains("sphere", problem_lower) THEN <<"Sphere", "sphere">>
                 ELSE IF Contains("cylinder", problem_lower)
                 THEN <<"Cylinder", "cylinder">>
                 ELSE <<"", "3d_shape">>
        numbers == FindDigits(problem)
        geo_result == w["solve_geometry"]
        cube_size == w["extract_cube_size"]
        faces_query == w["extract_painted_faces_query"]
        n == cube_size.n - 2
        size == IntToStr(cube_size.n)
        dims == "Painted cube (" \o size \o "x" \o size \o "x" \o size \o "): "
        painted == /\ Contains("painted", problem_lower)
                   /\ Contains("cube", problem_lower)
                   /\ Truthy(cube_size) /\ faces_query # None
        tool == "problem_parser + geometric_formula"
    IN  IF Contains("identify", sub)
        THEN IF first <= 3
             THEN IF IsRaise(found) THEN Throw(found.s, step)
                  ELSE Fired(step, found, found.s,
                             (CASE first = 1 -> "Logical trap detected: "
                                [] first = 2 -> "Cube ant path calculation: "
                                [] OTHER -> "Pizza cutting solution: ") \o found.s,
                             CASE first = 1 -> "trap_detector"
                               [] first = 2 -> "ant_path_calculator"
                               [] OTHER -> "pizza_cutter")
             ELSE Ok([step EXCEPT
                        !.thought = IF shape[1] = "" THEN "General 3D geometric problem"
                                    ELSE "Identified geometric shape: " \o shape[1],
                        !.result = StrV(shape[2])])
        ELSE IF Contains("dimensions", sub)
        THEN IF numbers # <<>>
             THEN Ok([step EXCEPT
                        !.thought = "Extracted dimensions: " \o Join(", ", numbers),
                        !.result = StrV(Join(",", numbers))])
             ELSE Ok(step)
        ELSE IF Contains("calculate", sub)
        THEN IF IsRaise(geo_result) THEN Throw(geo_result.s, step)
             ELSE IF geo_result # None
             THEN Fired(step, geo_result, PyStr(geo_result), "Geometry: sphere_volume",
                        "geometry_calculator")
             ELSE IF IsRaise(cube_size) THEN Throw(cube_size.s, step)
             ELSE IF IsRaise(faces_query) THEN Throw(faces_query.s, step)
             ELSE IF painted /\ faces_query.n = 2
             THEN Fired(step, IntV(12 * n), IntToStr(12 * n),
                        dims \o "Edge cubes = 12x(" \o size \o "-2) = " \o IntToStr(12 * n),
                        tool)
             ELSE IF painted /\ faces_query.n = 3
             THEN Fired(step, IntV(8), "8", "Painted cube: Corner cubes = 8 (always)",
                        tool)
             ELSE IF painted /\ faces_query.n = 1
             THEN Fired(step, IntV(6 * n * n), IntToStr(6 * n * n),
                        dims \o "Face centers = 6x(" \o size \o "-2)^2 = "
                             \o IntToStr(6 * n * n),
                        tool)
             ELSE IF painted /\ faces_query.n = 0
             THEN Fired(step, IntV(n * n * n), IntToStr(n * n * n),
                        dims \o "Internal cubes = (" \o size \o "-2)^3 = "
                             \o IntToStr(n * n * n),
                        tool)
             ELSE Ok([step EXCEPT !.thought = "Applying geometric formulas",
                                  !.tool_used = StrV("calculator"),
                                  !.result = StrV("calculated")])
        ELSE Ok(step)

\* the result text of the combined-time branch of _handle_mathematical_step
CombinedTimeStr(combined_time) ==
    LET hours == combined_time \div 100
        minutes == ((combined_time - 100 * hours) * 60) \div 100
    IN  IF minutes > 0
        THEN IntToStr(hours) \o " hours and " \o IntToStr(minutes) \o " minutes"
        ELSE FloatToStr(combined_time) \o " hours"

\* _handle_mathematical_step(step, problem, sub_problem)
handle_mathematical_step(step, problem, sub_problem, w) ==
    LET sub == Lower(sub_problem)
        numbers == FindNumbers(problem)
        first == FirstActive(w, SubSeq(MathSolvers, 1, 6))
        found == w[MathSolvers[first]]
        presses == w["calculate_worst_case_presses"]
        solution == w["solve_constraints"]
        evaluate == w["calculator.evaluate"]
        sum == FloatV(ToFloat(numbers[1]) + ToFloat(numbers[2]))
        product == FloatV(Mul(ToFloat(numbers[1]), ToFloat(numbers[2])))
        added == Len(numbers) >= 2 /\ ~IsRaise(evaluate)
    IN  IF Contains("extract", sub)
        THEN Ok([step EXCEPT !.thought = "Extracted values: " \o StrListRepr(numbers),
                             !.result = StrV(Join(",", numbers))])
        ELSE IF Contains("equation", sub) \/ Contains("identify", sub)
        THEN IF first <= 6
             THEN IF IsRaise(found) THEN Throw(found.s, step)
                  ELSE IF first = 4
                  THEN Fired(step, found, CombinedTimeStr(found.n),
                             "Combined work rate: " \o CombinedTimeStr(found.n),
                             "work_rate_calculator")
                  ELSE Fired(step, found, found.s,
                             (CASE first = 1 -> "Enhanced work rate calculation: "
                                [] first = 2 -> "Machine production optimization: "
                                [] first = 3 -> "Switch-machine identification: "
                                [] first = 5 ->
                                     "Pipeline scheduling: Natural process order is "
                                [] OTHER -> "Gear calculation: ") \o found.s,
                             CASE first = 1 -> "enhanced_work_rate"
                               [] first = 2 -> "production_optimizer"
                               [] first = 3 -> "switch_identifier"
                               [] first = 5 -> "pipeline_scheduler"
                               [] OTHER -> "gear_calculator")
             ELSE IF IsRaise(presses) THEN Throw(presses.s, step)
             ELSE IF Truthy(presses) THEN Throw("name 'options' is not defined", step)
             ELSE IF IsRaise(solution) THEN Throw(solution.s, step)
             ELSE IF Truthy(solution)
             THEN Fired(step, solution, PyStr(solution),
                        "Constraint analysis: " \o PyStr(solution), "constraint_solver")
             ELSE Ok([step EXCEPT
                        !.tool_output = IF added THEN sum ELSE @,
                        !.thought = "Set up mathematical equation",
                        !.result = IF added THEN StrV(PyStr(sum))
                                   ELSE IF Truthy(@) THEN @
                                   ELSE StrV("equation_ready")])
        ELSE IF Contains("calculate", sub) \/ Contains("perform", sub)
        THEN IF added
             THEN Fired(step, product, PyStr(product), "Calculated: " \o PyStr(product),
                        "calculator")
             ELSE Ok([step EXCEPT !.thought = "Performing calculations",
                                  !.tool_used = StrV("calculator"),
                                  !.result = StrV("calculated")])
        ELSE IF Contains("verify", sub)
        THEN Ok([step EXCEPT !.thought = "Verifying answer against constraints",
                             !.verified = TRUE,
                             !.result = StrV("verified")])
        ELSE Ok(step)

\* the differences of consecutive terms
Diffs(q) == [i \in 1..(Len(q) - 1) |-> q[i + 1] - q[i]]

Abs(x) == IF x < 0 THEN -x ELSE x

\* all(abs(d - q[0]) < 0.001 for d in q), q in hundredths
AllEqualFirst(q) == \A i \in 1..Len(q) : q[i] = q[1]

\* the terms in units when they are all whole, in hundredths otherwise
Units(q) ==
    IF \A i \in 1..Len(q) : IsInteger(q[i]) THEN [i \in 1..Len(q) |-> q[i] \div 100]
    ELSE q

\* all(abs(r - ratios[0]) < 0.001 for r in ratios), ratios[i] = q[i+1] / q[i]
ConstantRatio(q) ==
    LET u == Units(q)
    IN  \A i \in 1..(Len(u) - 1) :
          1000 * Abs(u[i + 1] * u[1] - u[2] * u[i]) < Abs(u[i] * u[1])

\* sum(q[a:b]) in Python's indexing
SumSlice(q, a, b) == SumSeq(SubSeq(q, a + 1, b))

\* the Fibonacci-like test of _handle_sequence_step for the sum of n terms
SumOfPrevious(q, n) ==
    /\ Len(q) >= n + 2
    /\ \A i \in n..(Len(q) - 1) : q[i + 1] = SumSlice(q, i - n, i)

\* a prediction branch of _handle_sequence_step
Predicted(step, next_val, thought) ==
    Fired(step, FloatV(next_val), IntOrFloatStr(next_val), thought, "pattern_analyzer")

\* _handle_sequence_step(step, problem, sub_problem) once sub_problem is
\* lowered and the numbers of the problem are parsed; the ratio of a geometric
\* sequence of the model is a multiple of 0.01
SequenceStep(step, sub, sequence, next_val) ==
    LET last == sequence[Len(sequence)]
        diffs == Diffs(sequence)
        diff2 == Diffs(diffs)
        ratio == (100 * sequence[2]) \div sequence[1]
        nonzero == \A i \in 1..(Len(sequence) - 1) : sequence[i] # 0
        fib == {n \in {2, 3, 4} : SumOfPrevious(sequence, n)}
        fibn == MinOf(fib)
    IN  IF Contains("identify", sub)
        THEN Ok([step EXCEPT
                   !.thought = "Identified sequence: " \o FloatListRepr(sequence),
                   !.result = StrV(FloatListRepr(sequence)),
                   !.tool_used = StrV("pattern_analyzer")])
        ELSE IF Contains("analyze", sub) \/ Contains("differences", sub)
        THEN Throw("name 'step_number' is not defined", step)
        ELSE IF Contains("determine", sub) \/ Contains("pattern rule", sub)
        THEN Ok([step EXCEPT !.thought = "Pattern rule determined from analysis",
                             !.result = StrV("pattern_identified")])
        ELSE IF Contains("apply", sub) \/ Contains("find next", sub)
        THEN IF Len(sequence) >= 3 /\ AllEqualFirst(diffs)
             THEN Predicted(step, last + diffs[1],
                            "Arithmetic: constant difference " \o FloatToStr(diffs[1]))
             ELSE IF Len(sequence) >= 3 /\ AllEqualFirst(diff2)
             THEN Predicted(step, last + diffs[Len(diffs)] + diff2[1],
                            "Quadratic: 2nd difference = " \o FloatToStr(diff2[1]))
             ELSE IF Len(sequence) >= 3 /\ nonzero /\ ConstantRatio(sequence)
             THEN Predicted(step, Mul(last, ratio),
                            "Geometric: constant ratio " \o FloatToStr(ratio))
             ELSE IF Len(sequence) >= 3 /\ fib # {}
             THEN Predicted(step,
                            SumSlice(sequence, Len(sequence) - fibn, Len(sequence)),
                            "Sum of previous " \o IntToStr(fibn) \o " numbers")
             ELSE IF Len(sequence) >= 3 /\ IsRaise(next_val)
             THEN Throw(next_val.s, step)
             ELSE IF Len(sequence) >= 3 /\ next_val # None
             THEN Predicted(step, next_val.n,
                            "Pattern analyzer: " \o FloatToStr(next_val.n))
             ELSE Ok([step EXCEPT
                        !.thought = "Could not determine pattern algorithmically"])
        ELSE Ok(step)

\* sequence = [float(n) for n in numbers]
Floats(numbers) == [i \in 1..Len(numbers) |-> ToFloat(numbers[i])]

handle_sequence_step(step, problem, sub_problem, w) ==
    SequenceStep(step, Lower(sub_problem), Floats(FindNumbers(problem)),
                 w["predict_next"])

\* suggestion.get('analysis', '') of interpret_answer_options
Analysis(w) ==
    IF w["interpret_answer_options"] = Unavailable THEN "Unable to analyze options"
    ELSE w["interpret_answer_options"].s

\* s[:n]
Prefix(s, n) == SubSeq(s, 1, Min2(n, Len(s)))

\* result and tool_output both become opt
Chosen(step, opt) == [step EXCEPT !.result = StrV(opt), !.tool_output = StrV(opt)]

\* _handle_optimization_step(step, problem, sub_problem, options)
handle_optimization_step(step, problem, sub_problem, options, w, use_mistral) ==
    LET sub == Lower(sub_problem)
        first == FirstActive(w, SubSeq(OptimizationSolvers, 1, 3))
        found == w[OptimizationSolvers[first]]
        solution == w["solve_constraints"]
        analysis == Analysis(w)
        asked == options # <<>> /\ use_mistral
        advised == FirstMatch(options,
                     LAMBDA opt : Contains(Lower(opt), Lower(analysis)))
        thought == IF asked THEN "Mistral analysis: " \o Prefix(analysis, 100)
                   ELSE step.thought
        solved(prefix) == Fired(step, solution, solution.s, prefix \o solution.s,
                                "constraint_solver")
    IN  IF first <= 3
        THEN IF IsRaise(found) THEN Throw(found.s, step)
             ELSE IF first = 3
             THEN Fired(step, found, IntToStr(found.n) \o " days",
                        "Task scheduling (bin-packing): Optimal schedule is "
                          \o IntToStr(found.n) \o " days",
                        "task_scheduler")
             ELSE Fired(step, found, found.s,
                        (IF first = 1 THEN "Enhanced scheduling: "
                         ELSE "Travel optimization: ") \o found.s,
                        IF first = 1 THEN "enhanced_scheduler" ELSE "travel_optimizer")
        ELSE IF Contains("constraints", sub) \/ Contains("identify", sub)
        THEN IF IsRaise(solution) THEN Throw(solution.s, step)
             ELSE IF Truthy(solution) THEN solved("Constraint solver found optimal: ")
             ELSE Ok([step EXCEPT
                        !.thought = "Identified problem constraints and objectives",
                        !.result = StrV("constraints_identified")])
        ELSE IF Contains("approaches", sub) \/ Contains("list", sub)
        THEN IF options # <<>>
             THEN Ok([step EXCEPT
                        !.thought = "Evaluating " \o IntToStr(Len(options))
                                      \o " possible options",
                        !.result = StrV(IntToStr(Len(options)) \o "_options")])
             ELSE Ok([step EXCEPT !.thought = "Listing possible approaches",
                                  !.result = StrV("approaches_listed")])
        ELSE IF Contains("evaluate", sub)
        THEN IF IsRaise(solution) THEN Throw(solution.s, step)
             ELSE IF Truthy(solution) THEN solved("Constraint evaluation complete: ")
             ELSE Ok([step EXCEPT
                        !.thought = "Evaluating each option against constraints",
                        !.tool_used = StrV("constraint_solver"),
                        !.result = StrV("evaluated")])
        ELSE IF Contains("optimal", sub) \/ Contains("select", sub)
        THEN IF IsRaise(solution) THEN Throw(solution.s, step)
             ELSE IF Truthy(solution) THEN solved("Algorithmic optimal solution: ")
             ELSE IF asked /\ advised # None
             THEN Ok(Chosen([step EXCEPT !.thought = thought], advised.s))
             ELSE IF options # <<>>
             THEN Ok(Chosen([step EXCEPT !.thought = thought], options[1]))
             ELSE Ok([step EXCEPT !.thought = "Selected optimal solution",
                                  !.result = StrV("optimal_solution")])
        ELSE Ok(step)

\* ProblemParser.detect_counter_intuitive_logic(text): [hint, reasoning], or
\* None
detect_counter_intuitive_logic(text) ==
    LET text_lower == Lower(text)
    IN  IF /\ Contains("overtake", text_lower) /\ Contains("second", text_lower)
           /\ Contains("position", text_lower)
        THEN [k |-> "dict",
              hint |-> "When you overtake the person in second place, you take their position (2nd), not 1st",
              reasoning |-> "You are now ahead of them but behind the person in 1st"]
        ELSE IF Contains("surprise", text_lower) /\ Contains("test", text_lower)
        THEN [k |-> "dict",
              hint |-> "The surprise test paradox resolves when the test actually happens",
              reasoning |-> "Any day can be a surprise if the reasoning is circular"]
        ELSE IF Contains("bury", text_lower) /\ Contains("survivor", text_lower)
        THEN [k |-> "dict",
              hint |-> "You don't bury survivors - they're alive",
              reasoning |-> "The question contains a logical impossibility"]
        ELSE [k |-> "none", hint |-> "", reasoning |-> ""]

\* _handle_logical_step(step, problem, sub_problem, options)
handle_logical_step(step, problem, sub_problem, options, w, use_mistral) ==
    LET sub == Lower(sub_problem)
        combo_result == w["solve_combinatorial_problem"]
        missing == w["find_missing_in_sequence"]
        named == FirstMatch(options,
                   LAMBDA opt : \/ Lower(missing.s) = Lower(opt)
                                \/ Contains(missing.s, opt))
        another == FirstMatch(options, LAMBDA opt : Contains("another", Lower(opt)))
        logic_hint == detect_counter_intuitive_logic(problem)
        hinted == logic_hint.k # "none" /\ options # <<>>
        second == FirstMatch(options, LAMBDA opt : Contains("second", Lower(opt)))
        overtake == hinted /\ Contains("overtake", Lower(problem)) /\ second # None
        step1 == IF hinted
                 THEN [step EXCEPT
                         !.thought = "Counter-intuitive logic: " \o logic_hint.reasoning
                                       \o " (Hint: " \o logic_hint.hint \o ")"]
                 ELSE step
        analysis == Analysis(w)
        asked == options # <<>> /\ use_mistral
        advised == FirstMatch(options,
                     LAMBDA opt : Contains(Lower(opt), Lower(analysis)))
        step2 == IF asked
                 THEN [step1 EXCEPT
                         !.thought = "Logical conclusion: " \o Prefix(analysis, 100)]
                 ELSE step1
    IN  IF IsRaise(combo_result) THEN Throw(combo_result.s, step)
        ELSE IF Truthy(combo_result)
        THEN Fired(step, combo_result, combo_result.s,
                   "Combinatorial calculation: " \o combo_result.s,
                   "combinatorial_solver")
        ELSE IF IsRaise(missing) THEN Throw(missing.s, step)
        ELSE IF Truthy(missing)
        THEN IF named # None
             THEN Fired(step, missing, named.s,
                        "Pattern detected (months/days): Missing element is '"
                          \o missing.s \o "'",
                        "pattern_detector")
             ELSE IF another # None
             THEN Fired(step, missing, another.s,
                        "Pattern detected: Missing element is '" \o missing.s
                          \o "' (not in given options)",
                        "pattern_detector")
             ELSE Fired(step, missing, missing.s,
                        "Detected missing element in sequence: '" \o missing.s \o "'",
                        "pattern_detector")
        ELSE IF overtake
        THEN Ok([Chosen(step, second.s) EXCEPT
                   !.thought = "Counter-intuitive logic: " \o logic_hint.reasoning,
                   !.tool_used = StrV("logic_analyzer")])
        ELSE IF Contains("identify", sub) /\ Contains("facts", sub)
        THEN Ok([step1 EXCEPT !.thought = "Extracted given facts and conditions",
                              !.result = StrV("facts_extracted")])
        ELSE IF Contains("proven", sub) \/ Contains("needs to be", sub)
        THEN Ok([step1 EXCEPT !.thought = "Identified conclusion to prove",
                              !.result = StrV("goal_identified")])
        ELSE IF Contains("apply", sub) /\ Contains("logical", sub)
        THEN Ok([step1 EXCEPT !.thought = "Applying logical rules and deduction",
                              !.tool_used = StrV("logic_reasoner"),
                              !.result = StrV("logic_applied")])
        ELSE IF Contains("conclusion", sub)
        THEN IF asked /\ advised # None THEN Ok(Chosen(step2, advised.s))
             ELSE IF options # <<>> THEN Ok(Chosen(step2, options[1]))
             ELSE Ok([step2 EXCEPT !.thought = "Reached logical conclusion",
                                   !.result = StrV("conclusion_reached")])
        ELSE Ok(step1)

\* the best_match loop of _handle_general_step: the first option whose word
\* overlap with the analysis is largest, None if no option overlaps
BestMatch(options, analysis) ==
    LET overlap(opt) == Cardinality(Words(Lower(opt)) \cap Words(Lower(analysis)))
        best == MaxOf({overlap(options[i]) : i \in 1..Len(options)} \cup {0})
    IN  IF best = 0 THEN None
        ELSE FirstMatch(options, LAMBDA opt : overlap(opt) = best)

\* _handle_general_step(step, problem, sub_problem, options)
handle_general_step(step, problem, sub_problem, options, w, use_mistral) ==
    LET analysis == Analysis(w)
        asked == options # <<>> /\ use_mistral
        best_match == BestMatch(options, analysis)
        I == {i \in 1..Len(options) :
                \/ Contains("option " \o IntToStr(i), Lower(analysis))
                \/ Contains(Lower(Prefix(options[i], 20)), Lower(analysis))}
    IN  IF asked /\ best_match # None
        THEN Ok(Chosen([step EXCEPT
                          !.thought = "Mistral analysis: " \o Prefix(analysis, 200)],
                       best_match.s))
        ELSE IF asked /\ I # {}
        THEN Ok(Chosen([step EXCEPT
                          !.thought = "Mistral analysis: " \o Prefix(analysis, 200)],
                       options[MinOf(I)]))
        ELSE IF options # <<>>
        THEN Ok(Chosen([step EXCEPT !.thought = "Processing: " \o sub_problem],
                       options[1]))
        ELSE Ok([step EXCEPT !.thought = "Processing: " \o sub_problem,
                             !.result = StrV("processed")])

\* enhance_thought(action, context)
enhance_thought(action, w) ==
    IF w["enhance_thought"] = Unavailable THEN "Executing: " \o action
    ELSE w["enhance_thought"].s

\* the dispatch of _execute_sub_problem on plan.problem_type: the handler's
\* [exc, step]
dispatch(step, sub_problem, full_problem, plan, options, w, use_mistral) ==
    LET t == plan.problem_type
    IN  CASE t = "sequence" ->
               handle_sequence_step(step, full_problem, sub_problem, w)
          [] t = "spatial_reasoning" ->
               handle_spatial_step(step, full_problem, sub_problem, w)
          [] t = "mathematical" ->
               handle_mathematical_step(step, full_problem, sub_problem, w)
          [] t = "optimization" ->
               handle_optimization_step(step, full_problem, sub_problem, options,
                                        w, use_mistral)
          [] t = "logical" ->
               handle_logical_step(step, full_problem, sub_problem, options, w,
                                   use_mistral)
          [] OTHER ->
               handle_general_step(step, full_problem, sub_problem, options, w,
                                   use_mistral)

\* the step _execute_sub_problem creates before the dispatch
FirstStep(step_number, sub_problem, w, use_mistral) ==
    NewStep(step_number, sub_problem,
            IF use_mistral THEN enhance_thought(sub_problem, w) ELSE "")

\* _execute_sub_problem without its try/except: what the handler raises
\* leaves the function
execute_unprotected(step_number, sub_problem, full_problem, plan, options, w, use_mistral) ==
    dispatch(FirstStep(step_number, sub_problem, w, use_mistral), sub_problem,
             full_problem, plan, options, w, use_mistral)

\* _execute_sub_problem(step_number, sub_problem, full_problem, plan, options):
\* [exc, step] as for a handler; the except clause leaves no exception
execute_sub_problem(step_number, sub_problem, full_problem, plan, options, w, use_mistral) ==
    LET try(h) ==
            IF h.exc = None THEN Ok([h.step EXCEPT !.confidence = Tenths(8)])
            ELSE Ok([h.step EXCEPT !.thought = "Error executing step: " \o h.exc.s,
                                   !.confidence = Tenths(1)])
    IN  try(dispatch(FirstStep(step_number, sub_problem, w, use_mistral),
                     sub_problem, full_problem, plan, options, w, use_mistral))

\* the exceptions the solvers raise
SolverFailures == UNION {Raises(solver) : solver \in SolverNames}

\* a calculator.evaluate call of _handle_mathematical_step raises inside its
\* "try: ... except: pass"
calculator_raised(problem, sub_problem, w) ==
    LET sub == Lower(sub_problem)
        setup == Contains("equation", sub) \/ Contains("identify", sub)
        perform == Contains("calculate", sub) \/ Contains("perform", sub)
        exhausted == /\ FirstActive(w, SubSeq(MathSolvers, 1, 6)) > 6
                     /\ ~Truthy(w["calculate_worst_case_presses"])
                     /\ ~IsRaise(w["calculate_worst_case_presses"])
                     /\ ~Truthy(w["solve_constraints"])
                     /\ ~IsRaise(w["solve_constraints"])
    IN  /\ ~Contains("extract", sub)
        /\ (setup /\ exhausted) \/ (~setup /\ perform)
        /\ Len(FindNumbers(problem)) >= 2
        /\ IsRaise(w["calculator.evaluate"])

\* a solver called for this sub-problem raises: the handler ends with the
\* solver's exception, or the calculator's exception is passed over
solver_raised(sub_problem, full_problem, plan, options, w, use_mistral) ==
    \/ dispatch(NewStep(0, sub_problem, ""), sub_problem, full_problem, plan,
                options, w, use_mistral).exc \in SolverFailures
    \/ /\ plan.problem_type = "mathematical"
       /\ calculator_raised(full_problem, sub_problem, w)

(***************************************************************************)
(* Section 9.  The Orchestrator (reasoning_system.py, api.py): the state.   *)
(***************************************************************************)

VARIABLES
    use_mistral,  \* ReasonerAgent.use_mistral
    pool,         \* the solver pool: problem text -> world
    requests,     \* thread -> the (problem, topic, options) triples it submits
    clients,      \* the number of threads calling solve on the instance
    budget,       \* the number of solve calls the clients have yet to make
    chains,       \* the ReasoningChain objects created so far
    rc,           \* ReasonerAgent.reasoning_chain: a position in chains, 0: None
    pc,           \* thread -> its position in solve: the statement it is at and
                  \* the turn of the loop of execute_plan
    frames,       \* thread -> the locals of its solve call in progress
    cache,        \* AgenticReasoningSystem.solution_cache
    returned,     \* history: the calls that returned, in order
    cleared_at,   \* history: the number of calls returned at the last clear
    applied       \* a pure function under study, its arguments and its value

vars == <<use_mistral, pool, requests, clients, budget, chains, rc, pc, frames,
          cache, returned, cleared_at, applied>>

\* the number of threads of the model
MaxThreads == 2
\* the number of solve calls of the runs with several calls
MaxCalls == 2
\* the number of solvers that deviate from Default in one world
MaxFiring == 2
\* the number of steps of the chains the pure functions are applied to
MaxSteps == 3
\* the number of solvers that deviate in one world of the runs with several
\* calls
MaxDeviating == 1

Threads == 1..MaxThreads

NoVerification == [is_valid |-> FALSE, confidence |-> 0, issues |-> <<>>,
                   suggestions |-> <<>>]
NoPlan == [problem_type |-> "", strategy |-> "", sub_problems |-> <<>>,
           required_tools |-> <<>>]
NoInput == [problem |-> "", topic |-> "", options |-> <<>>]

\* a thread that is not in solve
IdleFrame ==
    [call |-> 0, input |-> NoInput, plan |-> NoPlan, chain |-> 0,
     preliminary_answer |-> "", verification |-> NoVerification,
     confidence |-> 0, answer |-> ""]

\* the position of a thread that is not in solve
Idle == [at |-> "idle", step_number |-> 0]

\* the position of a thread at statement a of solve, in turn k of the loop
At(a, k) == [at |-> a, step_number |-> k]

\* the chain of the previous execute_plan is kept and given the new problem
LeftoverChain(problem, plan, call) ==
    IF rc = 0
    THEN [problem |-> problem, plan |-> plan, steps |-> <<>>, final_answer |-> None,
          overall_confidence |-> 0, owner |-> call, appended_by |-> <<>>]
    ELSE [chains[rc] EXCEPT !.problem = problem, !.plan = plan, !.owner = call]

\* ReasoningChain(problem=problem, plan=plan); owner and appended_by are
\* history: the call that created the chain, the call that added each step
NewChain(problem, plan, call) ==
    [problem |-> problem, plan |-> plan, steps |-> <<>>, final_answer |-> None,
     overall_confidence |-> 0, owner |-> call, appended_by |-> <<>>]

\* the step is put before the steps of the chain
add_first(chain, step, call) ==
    [chain EXCEPT !.steps = <<step>> \o @, !.appended_by = <<call>> \o @]

\* chain.add_step(step), by call
add_step(chain, step, call) ==
    [chain EXCEPT !.steps = Append(@, step), !.appended_by = Append(@, call)]

\* "'percentage' in problem.lower() or '%' in problem"
MentionsPercentage(problem) ==
    Contains("percentage", Lower(problem)) \/ Contains("%", problem)

\* the self-correction step numbered as the last step before it
correction_step_renumbered(steps, corrected_answer, correction_reason, confidence) ==
    [step_number |-> Len(steps), action |-> "Self-correction",
     thought |-> correction_reason, tool_used |-> StrV("self_corrector"),
     tool_output |-> None, result |-> StrV(corrected_answer), verified |-> TRUE,
     confidence |-> confidence]

\* the self-correction step created with verified = False
correction_step_unverified(steps, corrected_answer, correction_reason, confidence) ==
    [step_number |-> Len(steps) + 1, action |-> "Self-correction",
     thought |-> correction_reason, tool_used |-> StrV("self_corrector"),
     tool_output |-> None, result |-> StrV(corrected_answer), verified |-> FALSE,
     confidence |-> confidence]

\* the self-correction step of execute_plan
correction_step(steps, corrected_answer, correction_reason, confidence) ==
    [step_number |-> Len(steps) + 1, action |-> "Self-correction",
     thought |-> correction_reason, tool_used |-> StrV("self_corrector"),
     tool_output |-> None, result |-> StrV(corrected_answer), verified |-> TRUE,
     confidence |-> confidence]

\* self.solution_cache.setdefault(problem, result)
CacheKeep(c, problem, result) ==
    [q \in DOMAIN c \cup {problem} |-> IF q \in DOMAIN c THEN c[q] ELSE result]

\* self.solution_cache[problem] = result
CacheStore(c, problem, result) ==
    [q \in DOMAIN c \cup {problem} |-> IF q = problem THEN result ELSE c[q]]

(***************************************************************************)
(* Section 10.  The actions: one solve call is Begin, ExecStep for each    *)
(* sub-problem, Finish, Verify, Return.                                    *)
(***************************************************************************)

\* solve up to the loop of execute_plan: create_plan, and the new chain stored
\* in self.reasoning_chain
Begin(t) ==
    /\ t <= clients
    /\ pc[t].at = "idle"
    /\ budget > 0
    /\ \E input \in requests[t] :
         LET plan == create_plan(input.problem, input.topic)
             call == Len(chains) + 1
         IN  /\ chains' = Append(chains, NewChain(input.problem, plan, call))
             /\ rc' = call
             /\ frames' = [frames EXCEPT ![t] =
                             [IdleFrame EXCEPT !.call = call, !.input = input,
                                               !.plan = plan]]
    /\ pc' = [pc EXCEPT ![t] = At("exec", 1)]
    /\ budget' = budget - 1
    /\ UNCHANGED <<use_mistral, pool, requests, clients, cache, returned, cleared_at,
                   applied>>

\* one turn of the loop of execute_plan: the step is executed and added to
\* self.reasoning_chain; an exception leaves solve
ExecStep(t) ==
    LET f == frames[t]
        step_number == pc[t].step_number
    IN  /\ pc[t].at = "exec"
        /\ \E r \in {execute_sub_problem(
                         step_number, f.plan.sub_problems[step_number],
                         f.input.problem, f.plan, f.input.options,
                         pool[f.input.problem], use_mistral)} :
             IF r.exc # None
             THEN /\ pc' = [pc EXCEPT ![t] = At("raised", step_number)]
                  /\ UNCHANGED chains
             ELSE /\ chains' = [chains EXCEPT ![rc] = add_step(@, r.step, f.call)]
                  /\ pc' = [pc EXCEPT ![t] =
                              IF step_number = Len(f.plan.sub_problems)
                              THEN At("finish", step_number)
                              ELSE At("exec", step_number + 1)]
        /\ UNCHANGED <<use_mistral, pool, requests, clients, budget, rc, frames,
                       cache, returned, cleared_at, applied>>

\* the rest of execute_plan: the preliminary answer, the self-correction and
\* its step, final_answer and overall_confidence; self.reasoning_chain is
\* returned
Finish(t) ==
    LET f == frames[t]
        chain == chains[rc]
        options == f.input.options
    IN  /\ pc[t].at = "finish"
        /\ \E preliminary_answer \in
                 {determine_final_answer(
                      chain.steps, options, use_mistral,
                      StrV(Analysis(pool[chain.problem])))} :
             \E sc \in {self_correct(preliminary_answer,
                                     MentionsPercentage(f.input.problem),
                                     chain.steps, options)} :
               /\ chains' =
                    [chains EXCEPT ![rc] =
                       [(IF sc.answer # preliminary_answer
                         THEN add_step(chain,
                                       correction_step(chain.steps, sc.answer,
                                                       sc.reason, sc.confidence),
                                       f.call)
                         ELSE chain)
                        EXCEPT !.final_answer = StrV(sc.answer),
                               !.overall_confidence = sc.confidence]]
               /\ frames' = [frames EXCEPT
                               ![t].chain = rc,
                               ![t].preliminary_answer = preliminary_answer]
        /\ pc' = [pc EXCEPT ![t] = At("verify", 0)]
        /\ UNCHANGED <<use_mistral, pool, requests, clients, budget, rc, cache,
                       returned, cleared_at, applied>>

\* solve after execute_plan: verify_chain, calculate_confidence_score and
\* _refine_answer
Verify(t) ==
    LET f == frames[t]
    IN  /\ pc[t].at = "verify"
        /\ \E v \in {verify_chain(chains[f.chain])} :
             LET verified == [chains[f.chain] EXCEPT !.steps = v.steps]
             IN  /\ chains' = [chains EXCEPT ![f.chain] = verified]
                 /\ frames' = [frames EXCEPT
                                 ![t].verification = v.verification,
                                 ![t].confidence =
                                    calculate_confidence_score(verified,
                                                               v.verification),
                                 ![t].answer = refine_answer(verified.final_answer.s,
                                                             f.input.options)]
        /\ pc' = [pc EXCEPT ![t] = At("return", 0)]
        /\ UNCHANGED <<use_mistral, pool, requests, clients, budget, rc, cache,
                       returned, cleared_at, applied>>

\* SolutionResult(...) of the call of thread t; execution_time is left out
SolutionResult(f) ==
    [problem |-> f.input.problem, answer |-> f.answer, reasoning_chain |-> f.chain,
     verification |-> f.verification, confidence |-> f.confidence]

\* the end of solve: the result is cached and returned; the history keeps the
\* steps of its chain as they are now and the preliminary answer of
\* execute_plan
Return(t) ==
    LET f == frames[t]
        result == SolutionResult(f)
    IN  /\ pc[t].at = "return"
        /\ cache' = CacheStore(cache, f.input.problem, result)
        /\ returned' = Append(returned,
                              [call |-> f.call, input |-> f.input, result |-> result,
                               chain |-> chains[f.chain],
                               preliminary_answer |-> f.preliminary_answer])
        /\ frames' = [frames EXCEPT ![t] = IdleFrame]
        /\ pc' = [pc EXCEPT ![t] = Idle]
        /\ UNCHANGED <<use_mistral, pool, requests, clients, budget, chains, rc,
                       cleared_at, applied>>

\* r.confidence > 0.8
HighConfidence(c) == c > Tenths(8)

\* r.confidence >= 0.6, the medium band without its upper end
AtLeastMedium(c) == c >= Tenths(6)

\* 0.6 <= r.confidence <= 0.8
MediumConfidence(c) == Tenths(6) <= c /\ c <= Tenths(8)

\* r.confidence < 0.6
LowConfidence(c) == c < Tenths(6)

RECURSIVE SumConfidence(_, _)
\* sum(r.confidence for r in results), the results being those of the keys K
SumConfidence(c, K) ==
    IF K = {} THEN 0
    ELSE LET q == CHOOSE x \in K : TRUE
         IN  c[q].confidence + SumConfidence(c, K \ {q})

\* the dict {}
EmptyDict == [k \in {} |-> 0]

\* get_statistics() on the cache c; average_execution_time is left out
get_statistics(c) ==
    IF DOMAIN c = {} THEN EmptyDict
    ELSE [total_problems |-> Cardinality(DOMAIN c),
          average_confidence |-> SumConfidence(c, DOMAIN c) \div Cardinality(DOMAIN c),
          high_confidence_count |->
            Cardinality({q \in DOMAIN c : HighConfidence(c[q].confidence)}),
          medium_confidence_count |->
            Cardinality({q \in DOMAIN c : MediumConfidence(c[q].confidence)}),
          low_confidence_count |->
            Cardinality({q \in DOMAIN c : LowConfidence(c[q].confidence)})]

\* the caller ends its sequence of solve calls and calls get_statistics();
\* the call is kept with the number of calls that had returned and the last
\* clear
GetStatistics ==
    /\ \A t \in Threads : pc[t].at = "idle"
    /\ budget' = 0
    /\ applied' = [f |-> "get_statistics",
                   args |-> [calls |-> Len(returned), cleared_at |-> cleared_at],
                   done |-> TRUE,
                   value |-> get_statistics(cache)]
    /\ UNCHANGED <<use_mistral, pool, requests, clients, chains, rc,
                   pc, frames, cache, returned, cleared_at>>

\* clear_cache() of api.py: reasoning_system.solution_cache.clear()
ClearCache ==
    /\ cache' = <<>>
    /\ cleared_at' = Len(returned)
    /\ UNCHANGED <<use_mistral, pool, requests, clients, budget, chains, rc,
                   pc, frames, returned, applied>>

Next ==
    \/ \E t \in Threads : Begin(t)
    \/ \E t \in Threads : ExecStep(t)
    \/ \E t \in Threads : Finish(t)
    \/ \E t \in Threads : Verify(t)
    \/ \E t \in Threads : Return(t)
    \/ ClearCache

(***************************************************************************)
(* Section 11.  The pure functions applied to arguments of their own.      *)
(***************************************************************************)

\* no pure function is under study
NotApplied == [f |-> "", args |-> <<>>, done |-> FALSE, value |-> <<>>]

Applying(f, args) == [f |-> f, args |-> args, done |-> FALSE, value |-> <<>>]

\* AgenticReasoningSystem._refine_answer applied to the arguments
ApplyRefineAnswer ==
    /\ applied.f = "refine_answer" /\ ~applied.done
    /\ applied' = [applied EXCEPT
                     !.done = TRUE,
                     !.value = refine_answer(applied.args.preliminary_answer,
                                             applied.args.options)]
    /\ UNCHANGED <<use_mistral, pool, requests, clients, budget, chains, rc,
                   pc, frames, cache, returned, cleared_at>>

\* self_correct_answer applied to the arguments
ApplySelfCorrect ==
    /\ applied.f = "self_correct" /\ ~applied.done
    /\ applied' = [applied EXCEPT
                     !.done = TRUE,
                     !.value = self_correct(applied.args.preliminary_answer,
                                            applied.args.pct, applied.args.steps,
                                            applied.args.options)]
    /\ UNCHANGED <<use_mistral, pool, requests, clients, budget, chains, rc,
                   pc, frames, cache, returned, cleared_at>>

\* VerifierAgent.calculate_confidence_score applied to the arguments
ApplyConfidenceScore ==
    /\ applied.f = "calculate_confidence_score" /\ ~applied.done
    /\ applied' = [applied EXCEPT
                     !.done = TRUE,
                     !.value = calculate_confidence_score(applied.args.chain,
                                                          applied.args.verification)]
    /\ UNCHANGED <<use_mistral, pool, requests, clients, budget, chains, rc,
                   pc, frames, cache, returned, cleared_at>>

\* ReasonerAgent._determine_final_answer applied to the arguments
ApplyDetermineFinalAnswer ==
    /\ applied.f = "determine_final_answer" /\ ~applied.done
    /\ applied' = [applied EXCEPT
                     !.done = TRUE,
                     !.value = determine_final_answer(applied.args.steps,
                                                      applied.args.options,
                                                      applied.args.use_mistral,
                                                      applied.args.analysis)]
    /\ UNCHANGED <<use_mistral, pool, requests, clients, budget, chains, rc,
                   pc, frames, cache, returned, cleared_at>>

\* SelfCorrector.validate_result applied to the arguments
ApplyValidateResult ==
    /\ applied.f = "validate_result" /\ ~applied.done
    /\ applied' = [applied EXCEPT
                     !.done = TRUE,
                     !.value = validate_result(applied.args.result,
                                               applied.args.pct,
                                               applied.args.options)]
    /\ UNCHANGED <<use_mistral, pool, requests, clients, budget, chains, rc,
                   pc, frames, cache, returned, cleared_at>>

\* VerifierAgent.verify_step applied to the step
ApplyVerifyStep ==
    /\ applied.f = "verify_step" /\ ~applied.done
    /\ applied' = [applied EXCEPT !.done = TRUE,
                                  !.value = verify_step(applied.args.step)]
    /\ UNCHANGED <<use_mistral, pool, requests, clients, budget, chains, rc,
                   pc, frames, cache, returned, cleared_at>>

\* VerifierAgent.verify_chain applied to the chain: the steps as it leaves
\* them and the VerificationResult
ApplyVerifyChain ==
    /\ applied.f = "verify_chain" /\ ~applied.done
    /\ applied' = [applied EXCEPT !.done = TRUE,
                                  !.value = verify_chain(applied.args.chain)]
    /\ UNCHANGED <<use_mistral, pool, requests, clients, budget, chains, rc,
                   pc, frames, cache, returned, cleared_at>>

PureNext ==
    \/ ApplyVerifyStep
    \/ ApplyVerifyChain
    \/ ApplyRefineAnswer
    \/ ApplySelfCorrect
    \/ ApplyConfidenceScore
    \/ ApplyDetermineFinalAnswer
    \/ ApplyValidateResult

(***************************************************************************)
(* Section 12.  The inputs and the specifications.                         *)
(***************************************************************************)

\* the worlds of a plan of this type in which at most n solvers deviate
Worlds(problem_type, mistral, n) ==
    LET S == SolversOf(problem_type)
             \cup (IF mistral THEN Range(OracleCalls) ELSE {})
    IN  UNION {Deviate({QuietWorld}, D) : D \in SubsetsUpTo(S, n)}

Problems ==
    {"machines: 12 hours, 6 hours", "multiply 1001 by 1000",
     "what percentage is 150 of 2", "next number: 2, 4, 6", "sequence 5, 7",
     "painted cube of side 3", "best schedule for 3 tasks", "nothing special",
     "you overtake the second position", "riddle: what am i"}

OptionLists ==
    {<<>>, <<"4 hours", "Another answer">>, <<"30", "3">>, <<"verified", "Second">>}

Inputs(P, T, O) ==
    {[problem |-> p, topic |-> t, options |-> o] : p \in P, t \in T, o \in O}

NoOptions == {<<>>}

\* every problem without options, some with options, one problem under
\* topics that override its keywords, and a sequence of constant second
\* difference
RichInputs ==
    Inputs(Problems \ {"multiply 1001 by 1000"}, {""}, NoOptions)
    \cup Inputs({"machines: 12 hours, 6 hours", "best schedule for 3 tasks"}, {""},
                {<<"4 hours", "Another answer">>})
    \cup Inputs({"multiply 1001 by 1000", "next number: 2, 4, 6", "sequence 5, 7",
                 "painted cube of side 3"},
                {""}, {<<"30", "3">>})
    \cup Inputs({"nothing special", "riddle: what am i",
                 "you overtake the second position"},
                {""}, OptionLists)
    \cup Inputs({"machines: 12 hours, 6 hours"},
                {"Logical traps", "Sequence solving"},
                {<<>>, <<"4 hours", "Another answer">>})
    \cup Inputs({"sequence 2, 6, 12, 20"}, {""},
                {<<>>, <<"28", "30", "32", "34">>, <<"130", "30">>})

\* the inputs of the runs with several calls: two problems, one of them with
\* and without options
FewInputs ==
    Inputs({"machines: 12 hours, 6 hours"}, {""},
           {<<>>, <<"4 hours", "Another answer">>})
    \cup Inputs({"riddle: what am i"}, {""}, NoOptions)

\* the pools over the problems P of the inputs I: each problem has a world
\* of one of its plans, in which at most n solvers deviate
RECURSIVE Pools(_, _, _, _)
Pools(P, I, mistral, n) ==
    IF P = {} THEN {<<>>}
    ELSE LET q == CHOOSE x \in P : TRUE
             W == UNION {Worlds(classify_problem(i.problem, i.topic), mistral, n) :
                           i \in {j \in I : j.problem = q}}
         IN  {[x \in DOMAIN pl \cup {q} |-> IF x = q THEN w ELSE pl[x]] :
                pl \in Pools(P \ {q}, I, mistral, n), w \in W}

\* the problems of the inputs I
ProblemsOf(I) == {i.problem : i \in I}

\* the state after construction, no call made yet
Fresh ==
    /\ chains = <<>>
    /\ rc = 0
    /\ pc = [t \in Threads |-> Idle]
    /\ frames = [t \in Threads |-> IdleFrame]
    /\ cache = <<>>
    /\ returned = <<>>
    /\ cleared_at = 0

\* one solve call on a fresh instance, any input, any world
Init ==
    /\ use_mistral \in BOOLEAN
    /\ \E input \in RichInputs :
         /\ requests = [t \in Threads |-> {input}]
         /\ pool \in Pools({input.problem}, {input}, use_mistral, MaxFiring)
    /\ clients = 1
    /\ budget = 1
    /\ applied = NotApplied
    /\ Fresh

Spec == Init /\ [][Next]_vars

\* the statements of solve at which a call is under way
Running == {"exec", "finish", "verify", "return"}

\* the positions a thread can be at
Positions == {At(a, k) : a \in Running \cup {"idle", "raised"}, k \in 0..4}

\* thread t moves on in solve: by Next, a step of ExecStep(t), Finish(t),
\* Verify(t) or Return(t)
Advance(t) ==
    /\ pc[t].at \in Running
    /\ pc' \in {[pc EXCEPT ![t] = q] : q \in Positions \ {pc[t]}}

\* a call that has begun goes on: the code of solve has no suspension point
FairSpec ==
    /\ Spec
    /\ \A t \in Threads : WF_pc(Advance(t))

\* MaxCalls solve calls, one after the other, on one instance
MultiInit ==
    /\ use_mistral \in BOOLEAN
    /\ requests = [t \in Threads |-> FewInputs]
    /\ pool \in Pools(ProblemsOf(FewInputs), FewInputs, use_mistral, MaxDeviating)
    /\ clients = 1
    /\ budget = MaxCalls
    /\ applied = NotApplied
    /\ Fresh

MultiSpec == MultiInit /\ [][Next]_vars

\* the calls of MultiSpec, with get_statistics() after them
StatsNext == Next \/ GetStatistics

StatsSpec == MultiInit /\ [][StatsNext]_vars

\* the inputs of the threads: two problems with plans of different types,
\* one problem for each of the first two threads
ConcProblems == <<"machines: 12 hours, 6 hours", "nothing special">>

ConcInputs == Inputs(Range(ConcProblems), {""}, NoOptions)

\* MaxThreads threads that call solve on one instance, one call each, with
\* no oracle and in the world in which nothing special happens
ConcInit ==
    /\ use_mistral = FALSE
    /\ requests = [t \in Threads |->
                     IF t <= Len(ConcProblems)
                     THEN Inputs({ConcProblems[t]}, {""}, NoOptions) ELSE {}]
    /\ pool = [q \in ProblemsOf(ConcInputs) |-> QuietWorld]
    /\ clients = MaxThreads
    /\ budget = MaxThreads
    /\ applied = NotApplied
    /\ Fresh

ConcSpec == ConcInit /\ [][Next]_vars

\* a step as the handlers leave it
Shape(tool_used, tool_output, result, confidence) ==
    [NewStep(1, "Perform calculations", "Calculated: 4.0") EXCEPT
       !.tool_used = tool_used, !.tool_output = tool_output, !.result = result,
       !.confidence = confidence]

\* the steps the pure functions are given
StepShapes ==
    {Shape(StrV("calculator"), FloatV(400), StrV("4.0"), Scale),
     Shape(StrV("constraint_solver"), None, StrV("calculated"), Tenths(8)),
     Shape(StrV("pattern_analyzer"), FloatV(800), None, Scale),
     Shape(StrV("logic_reasoner"), StrV("4 hours"), StrV("4 hours"), 0),
     Shape(None, None, None, Tenths(1))}

\* the sequences over S of at most n elements
SeqsUpTo(S, n) == UNION {[1..k -> S] : k \in 0..n}

PureAnswers ==
    {"", "3", "3 ", "THREE", "calculated", "1001000", "three men", "second",
     "Unable to determine answer"}

\* the preliminary answers given to the Self-Corrector
CorrectorAnswers == {"", "3", "calculated", "1001000", "150"}

PureOptionLists ==
    {<<>>, <<"30", "3">>, <<"Three", "three men in a boat">>, <<"men", "Three">>,
     <<"4 hours", "Another answer">>, <<"Not second", "Second ">>,
     <<"old men", "three wise men">>}

CorrectorOptionLists == {<<>>, <<"30", "3">>, <<"4 hours", "Another answer">>}

PurePlans ==
    {[NoPlan EXCEPT !.sub_problems = sub_problems, !.required_tools = tools] :
       sub_problems \in {<<>>, <<"Perform calculations">>},
       tools \in {<<"reasoning_engine", "verifier">>,
                  <<"reasoning_engine", "calculator", "symbolic_solver", "verifier">>}}

PureVerifications ==
    {[NoVerification EXCEPT !.confidence = c, !.issues = issues] :
       c \in {0, Hundredths(56), Scale},
       issues \in {<<>>, <<"Step produced no result">>,
                   <<"Tool output is NaN or infinite">>,
                   <<"Calculator error: division by zero">>}}

\* the steps the Answer Synthesizer is given: those above, and steps with a
\* result and no solver output
SynthShapes ==
    StepShapes
    \cup {Shape(None, None, StrV(result), Tenths(8)) :
            result \in {"10,10,10", "100", "3"}}

SynthOptionLists ==
    {<<>>, <<"30", "3">>, <<"4 hours", "Another answer">>, <<"1000", "10">>,
     <<"40", "4">>}

\* what the oracle says of the options
SynthAnalyses == {StrV("Unable to analyze options"), StrV("Option 2 fits best")}

\* the steps given to the Verifier: with or without a result and a solver,
\* an action that mentions a calculation or not, and a thought that is empty,
\* short, or long and naming the result "4 hours"
VerifySteps ==
    {[NewStep(1, action, thought) EXCEPT
        !.tool_used = r[1], !.tool_output = r[2], !.result = r[3],
        !.confidence = Tenths(8)] :
       action \in {"Calculate the answer", "Identify the given sequence"},
       thought \in {"", "4 hours", "so it takes 4 hours"},
       r \in {<<None, None, None>>,
              <<StrV("calculator"), FloatV(400), StrV("4.0")>>,
              <<None, None, StrV("4 hours")>>}}

\* the longest chain given to verify_chain
MaxChainSteps == 2

\* the chains given to verify_chain: no more, as many or fewer steps than
\* sub-problems, with and without a final answer
VerifyChains ==
    {[NewChain("", [NoPlan EXCEPT !.sub_problems = sub_problems], 0) EXCEPT
        !.steps = steps, !.final_answer = final_answer,
        !.overall_confidence = Tenths(7)] :
       sub_problems \in {<<>>, <<"Calculate the answer">>,
                         <<"Identify the given sequence", "Calculate the answer",
                           "Verify the result">>},
       steps \in SeqsUpTo(VerifySteps, MaxChainSteps),
       final_answer \in {None, StrV(""), StrV("4 hours"),
                         StrV("Unable to determine answer")}}

\* the results and options given to validate_result
ValidateResults ==
    CorrectorAnswers \cup {"Calculated ", "-1000001", "1000000.5", "100.0", "4 hours"}

ValidateOptionLists == CorrectorOptionLists \cup {<<"150", "1001000">>}

\* a pure function and its arguments, chosen freely
PureInit ==
    /\ use_mistral = FALSE
    /\ requests = [t \in Threads |-> {}]
    /\ pool = <<>>
    /\ clients = 0
    /\ budget = 0
    /\ Fresh
    /\ \/ \E p \in PureAnswers, o \in PureOptionLists :
            applied = Applying("refine_answer",
                               [preliminary_answer |-> p, options |-> o])
       \/ \E p \in CorrectorAnswers, pct \in BOOLEAN, o \in CorrectorOptionLists,
             steps \in SeqsUpTo(StepShapes, MaxSteps) :
            applied = Applying("self_correct",
                               [preliminary_answer |-> p, pct |-> pct,
                                steps |-> steps, options |-> o])
       \/ \E plan \in PurePlans, steps \in SeqsUpTo(StepShapes, MaxSteps),
             verification \in PureVerifications :
            applied = Applying("calculate_confidence_score",
                               [chain |-> [NewChain("", plan, 0) EXCEPT
                                             !.steps = steps],
                                verification |-> verification])
       \/ \E step \in VerifySteps :
            applied = Applying("verify_step", [step |-> step])
       \/ \E chain \in VerifyChains :
            applied = Applying("verify_chain", [chain |-> chain])
       \/ \E result \in ValidateResults, pct \in BOOLEAN, o \in ValidateOptionLists :
            applied = Applying("validate_result",
                               [result |-> result, pct |-> pct, options |-> o])
       \/ \E steps \in SeqsUpTo(SynthShapes, MaxSteps), o \in SynthOptionLists,
             mistral \in BOOLEAN, analysis \in SynthAnalyses :
            applied = Applying("determine_final_answer",
                               [steps |-> steps, options |-> o,
                                use_mistral |-> mistral, analysis |-> analysis])

PureSpec == PureInit /\ [][PureNext]_vars

(***************************************************************************)
(* Section 13.  The claims.                                                *)
(***************************************************************************)

\* the threads whose call is past execute_plan and has yet to be verified
AfterExecutePlan == {t \in Threads : pc[t].at = "verify"}

\* the step is the self-correction step of execute_plan
IsCorrection(step) == step.tool_used = StrV("self_corrector")

\* C1: after execute_plan returns, step i of the chain has the action of
\* sub-problem i for every sub-problem of the plan, and the chain has as many
\* steps as the plan has sub-problems, or one more, the last being the
\* self-correction step; it has one more exactly when that step was appended.
C1_OneStepPerSubProblem ==
    \A t \in AfterExecutePlan :
      LET steps == chains[frames[t].chain].steps
          sub_problems == frames[t].plan.sub_problems
          n == Len(sub_problems)
      IN  /\ Len(steps) >= n
          /\ \A i \in 1..n : steps[i].action = sub_problems[i]
          /\ \A i \in 1..n : ~IsCorrection(steps[i])
          /\ Len(steps) <= n + 1
          /\ (Len(steps) = n + 1) => IsCorrection(steps[n + 1])

\* a chain with a self-correction step after the steps of a plan of four
\* sub-problems
C1_Witness ==
    \E t \in AfterExecutePlan :
      /\ Len(frames[t].plan.sub_problems) = 4
      /\ Len(chains[frames[t].chain].steps) = 5
      /\ IsCorrection(chains[frames[t].chain].steps[5])

\* the reserved status strings of the pipeline: the results the handlers give
\* to a step without substantive content
Sentinels == DetermineStatusStrings \cup ValidateStatusStrings

\* a solver output that is a number, or a string that is not a sentinel
Genuine(out) ==
    \/ IsNumber(out)
    \/ out.k = "str" /\ out.s # "" /\ out.s \notin Sentinels

HasGenuineOutput(steps) == \E k \in 1..Len(steps) : Genuine(steps[k].tool_output)

\* C2: when a step of the chain of a returned call has a genuine solver
\* output, neither the chain's final_answer nor the answer solve returned is
\* a status sentinel.
C2_NoSentinelAnswer ==
    \A i \in 1..Len(returned) :
      HasGenuineOutput(returned[i].chain.steps)
        => /\ returned[i].chain.final_answer.s \notin Sentinels
           /\ returned[i].result.answer \notin Sentinels

\* a returned call with options whose chain holds both a sentinel result and a
\* genuine solver output
C2_Witness ==
    \E i \in 1..Len(returned) :
      LET steps == returned[i].chain.steps
      IN  /\ HasGenuineOutput(steps)
          /\ returned[i].input.options # <<>>
          /\ \E k \in 1..Len(steps) :
               Truthy(steps[k].result) /\ steps[k].result.s \in Sentinels

\* C3: the confidence self_correct gives lies in [0.1, 0.95], and the
\* result of calculate_confidence_score lies in [0, 1], for every chain, step
\* confidences and issues.
C3_ConfidenceBounds ==
    applied.done =>
      /\ applied.f = "self_correct"
           => /\ applied.value.confidence >= Tenths(1)
              /\ applied.value.confidence <= Hundredths(95)
      /\ applied.f = "calculate_confidence_score"
           => applied.value >= 0 /\ applied.value <= Scale

\* the Self-Corrector's confidence is 0.95 for three steps of three reliable
\* tools
C3_Witness ==
    /\ applied.done
    /\ applied.f = "self_correct"
    /\ Len(applied.args.steps) = 3
    /\ Cardinality({applied.args.steps[i].tool_used : i \in 1..3}) = 3
    /\ \A i \in 1..3 : /\ Truthy(applied.args.steps[i].tool_used)
                       /\ applied.args.steps[i].tool_used.s \in ReliableTools
    /\ applied.value.confidence = Hundredths(95)

\* value is the option the three rules select for the answer p, equal being
\* the positions of the options that equal p
RuleOrder(p, options, value, equal) ==
    LET all == 1..Len(options)
        holds == {i \in all : Contains(Lower(p), Lower(options[i]))}
        held == {i \in all : Contains(Lower(options[i]), Lower(p))}
    IN  /\ equal # {} => value = options[MinOf(equal)]
        /\ (equal = {} /\ holds # {}) => value = options[MinOf(holds)]
        /\ (equal = {} /\ holds = {} /\ held # {}) => value = options[MinOf(held)]

\* the positions of the options equal to p case-insensitively
EqualIgnoringCase(p, options) ==
    {i \in 1..Len(options) : Lower(p) = Lower(options[i])}

\* the positions of the options equal to p case-insensitively once leading
\* and trailing whitespace is removed
EqualIgnoringCaseAndPadding(p, options) ==
    {i \in 1..Len(options) : Strip(Lower(p)) = Strip(Lower(options[i]))}

\* C4 as stated: _refine_answer returns the first option equal to the answer
\* case-insensitively; otherwise the first option that contains the answer;
\* otherwise the first option contained in the answer.
C4_AsStated ==
    (applied.done /\ applied.f = "refine_answer")
      => RuleOrder(applied.args.preliminary_answer, applied.args.options,
                   applied.value,
                   EqualIgnoringCase(applied.args.preliminary_answer,
                                     applied.args.options))

\* C4: _refine_answer returns the first option equal to the answer
\* case-insensitively and apart from leading and trailing whitespace, even if
\* an earlier option contains the answer; otherwise the first option that
\* contains the answer; otherwise the first option contained in the answer.
\* An answer that matches an option in one of these ways is returned as an
\* option.
C4_RuleOrder ==
    (applied.done /\ applied.f = "refine_answer")
      => RuleOrder(applied.args.preliminary_answer, applied.args.options,
                   applied.value,
                   EqualIgnoringCaseAndPadding(applied.args.preliminary_answer,
                                               applied.args.options))

\* the answer equals the second option, the first option contains it, and the
\* second is returned
C4_Witness ==
    /\ applied.done
    /\ applied.f = "refine_answer"
    /\ applied.args.preliminary_answer = "3"
    /\ applied.args.options = <<"30", "3">>
    /\ applied.value = "3"

\* C5: no exception leaves solve, and a call that has begun returns a
\* SolutionResult, whatever the solvers and the oracle do.
C5_Terminates ==
    /\ [](\A t \in Threads : pc[t].at # "raised")
    /\ (Len(chains) > 0) ~> (Len(returned) = Len(chains))

\* a call returned a result although a solver raised in one of its steps
C5_Witness ==
    \E i \in 1..Len(returned) :
      /\ \E k \in 1..Len(returned[i].chain.steps) :
           StartsWith(returned[i].chain.steps[k].thought, "Error executing step: ")
      /\ returned[i].result.answer # ""

\* the threads whose call is in execute_plan
InExecutePlan == {t \in Threads : pc[t].at \in {"exec", "finish"}}

\* C6: when a solver raises while sub-problem i is executed, step i is in the
\* chain with confidence 0.1 and a thought that describes the failure, and
\* the sub-problems after it are executed and appended.
C6_FailureDegradesStep ==
    \A t \in InExecutePlan :
      LET f == frames[t]
          steps == chains[f.call].steps
          sub_problems == f.plan.sub_problems
      IN  /\ pc[t].at = "finish" => Len(steps) = Len(sub_problems)
          /\ \A i \in 1..Min2(Len(steps), Len(sub_problems)) :
               solver_raised(sub_problems[i], f.input.problem, f.plan,
                             f.input.options, pool[f.input.problem], use_mistral)
                 => /\ steps[i].confidence = Tenths(1)
                    /\ StartsWith(steps[i].thought, "Error executing step: ")

\* C7: the chain of a returned call was created by that call, is the chain of
\* its problem and plan, and holds only steps that call appended.
C7_CallsAreIsolated ==
    \A i \in 1..Len(returned) :
      LET chain == returned[i].chain
      IN  /\ chain.owner = returned[i].call
          /\ chain.problem = returned[i].input.problem
          /\ \A k \in 1..Len(chain.steps) : chain.appended_by[k] = returned[i].call

\* C8: two returned calls with the same (problem, topic, options) have the
\* same answer, the same final_answer and the same number of steps.
C8_Idempotent ==
    \A i, j \in 1..Len(returned) :
      returned[i].input = returned[j].input
        => /\ returned[i].result.answer = returned[j].result.answer
           /\ returned[i].chain.final_answer = returned[j].chain.final_answer
           /\ Len(returned[i].chain.steps) = Len(returned[j].chain.steps)

\* the same input was solved twice, the first chain being left in the
\* reasoner and the first result in the cache
C8_Witness ==
    /\ Len(returned) = 2
    /\ returned[1].input = returned[2].input
    /\ returned[1].call # returned[2].call
    /\ cleared_at = 0
    /\ Len(returned[2].chain.steps) >= 4

\* C9: the k-th step of a chain execute_plan returned has step_number k.
C9_ContiguousNumbers ==
    \A t \in AfterExecutePlan :
      LET steps == chains[frames[t].chain].steps
      IN  \A k \in 1..Len(steps) : steps[k].step_number = k

\* a chain whose fifth step is the self-correction step
C9_Witness ==
    \E t \in AfterExecutePlan :
      LET steps == chains[frames[t].chain].steps
      IN  Len(steps) = 5 /\ steps[5].action = "Self-correction"
                         /\ steps[5].step_number = 5

\* the calls that returned since the last clear
SinceClear == (cleared_at + 1)..Len(returned)

\* C10: the cache has one entry for each problem solved since the last clear,
\* and the entry is the result of the last call that returned for that
\* problem.
C10_CacheHoldsLatest ==
    /\ DOMAIN cache = {returned[i].input.problem : i \in SinceClear}
    /\ \A i \in SinceClear :
         (\A j \in SinceClear : j > i
            => returned[j].input.problem # returned[i].input.problem)
           => cache[returned[i].input.problem] = returned[i].result

\* a problem was solved twice since the last clear and the cache holds the
\* second result
C10_Witness ==
    /\ Len(returned) = 2
    /\ cleared_at = 0
    /\ returned[1].input.problem = returned[2].input.problem
    /\ returned[1].result # returned[2].result
    /\ cache[returned[2].input.problem] = returned[2].result

\* the steps execute_plan gave to _determine_final_answer: those of the
\* sub-problems, without the self-correction step
SynthesizedFrom(r) == SubSeq(r.chain.steps, 1, Len(r.chain.plan.sub_problems))

\* opt matches the result text as the result scan matches them
MatchesResult(text, opt) ==
    \/ Contains(Strip(Lower(text)), Lower(opt))
    \/ Contains(Lower(opt), Strip(Lower(text)))

\* a result the result scan passes over: none, a sentinel, a list of digits
\* and commas, or a text of at most two characters that matches no option
PassedOver(res, options) ==
    \/ ~Truthy(res)
    \/ res.s \in DetermineStatusStrings
    \/ Contains(",", res.s) /\ ~AnyAlpha(RemoveCommas(res.s))
    \/ /\ Len(res.s) <= 2
       /\ \A i \in 1..Len(options) : ~MatchesResult(res.s, options[i])

\* no step has a usable solver output or result
NoCandidate(steps, options) ==
    \A k \in 1..Len(steps) :
      /\ ~UsableOutput(steps[k].tool_output)
      /\ PassedOver(steps[k].result, options)

\* the options the oracle's analysis of the problem names
OraclePicks(problem, options) ==
    IF ~use_mistral THEN {}
    ELSE {i \in 1..Len(options) :
            \/ Contains("option " \o IntToStr(i), Lower(Analysis(pool[problem])))
            \/ Contains(Lower(options[i]), Lower(Analysis(pool[problem])))}

\* the returned calls whose chain gave the Answer Synthesizer no candidate
\* and whose options the oracle did not pick from
WithoutCandidate ==
    {i \in 1..Len(returned) :
       /\ NoCandidate(SynthesizedFrom(returned[i]), returned[i].input.options)
       /\ OraclePicks(returned[i].input.problem, returned[i].input.options) = {}}

\* C11: when no step has a usable solver output or result and the oracle
\* picks no option, the preliminary answer is the first option if there are
\* options and "Unable to determine answer" if there are none, and in the
\* latter case the answer solve returns is "Unable to determine answer".
C11_DefaultAnswer ==
    \A i \in WithoutCandidate :
      LET options == returned[i].input.options
      IN  IF options # <<>>
          THEN returned[i].preliminary_answer = options[1]
          ELSE /\ returned[i].preliminary_answer = "Unable to determine answer"
               /\ returned[i].result.answer = "Unable to determine answer"

\* a call with options returned whose chain had no candidate, with the
\* oracle in use
C11_Witness ==
    \E i \in WithoutCandidate :
      /\ returned[i].input.options # <<>>
      /\ use_mistral
      /\ Len(returned[i].chain.steps) >= 4

\* in world w no solver returns a value or raises when called
Silent(w) ==
    \A solver \in SolverNames \ Range(OracleCalls) : w[solver] \in {None, Computes}

\* the returned calls without options in which no solver fired in any step:
\* the solvers found nothing and no step has a solver output
NoSolverFired ==
    {i \in 1..Len(returned) :
       /\ returned[i].input.options = <<>>
       /\ Silent(pool[returned[i].input.problem])
       /\ \A k \in 1..Len(returned[i].chain.steps) :
            returned[i].chain.steps[k].tool_output = None}

\* C12: when no solver fires in any step and there are no options, the
\* confidence returned with the answer "Unable to determine answer" is at
\* most 0.3.
C12_LowConfidence ==
    \A i \in NoSolverFired :
      returned[i].result.answer = "Unable to determine answer"
        => returned[i].result.confidence <= Tenths(3)

\* the equation step of a mathematical chain was set by a combined-rate
\* solver that found 4 hours
CombinedRateFoundFourHours(steps) ==
    /\ Len(steps) >= 2
    /\ \/ /\ steps[2].tool_used = StrV("enhanced_work_rate")
          /\ steps[2].tool_output = StrV("4 hours")
       \/ /\ steps[2].tool_used = StrV("work_rate_calculator")
          /\ steps[2].tool_output = FloatV(400)

\* C13: for a mathematical plan on the problem of the two machines that take
\* 12 and 6 hours, when the combined-rate solver of the equation step finds
\* 4 hours, the answer solve returns is "4 hours".
C13_FourHours ==
    \A i \in 1..Len(returned) :
      (/\ returned[i].chain.plan.problem_type = "mathematical"
       /\ returned[i].input.problem = "machines: 12 hours, 6 hours"
       /\ CombinedRateFoundFourHours(returned[i].chain.steps))
        => returned[i].result.answer = "4 hours"

\* the numbers of the problem text, in units when they are all whole
Terms(problem) == Units(Floats(FindNumbers(problem)))

\* at least three terms, first differences not constant, second differences
\* constant
Quadratic(q) ==
    /\ Len(q) >= 3
    /\ \E i \in 1..(Len(q) - 1) : q[i + 1] - q[i] # q[2] - q[1]
    /\ \A i \in 1..(Len(q) - 2) :
         (q[i + 2] - q[i + 1]) - (q[i + 1] - q[i]) = (q[3] - q[2]) - (q[2] - q[1])

\* last + (last first difference + d2)
NextTerm(q) ==
    q[Len(q)] + ((q[Len(q)] - q[Len(q) - 1]) + ((q[3] - q[2]) - (q[2] - q[1])))

\* C14: for a sequence plan on a problem whose numbers have constant second
\* difference d2 and first differences that are not constant, the find-next
\* step outputs last + (last first difference + d2), and the answer solve
\* returns is that value as an integer string: with options, the option equal
\* to it.
C14_NextTerm ==
    \A i \in 1..Len(returned) :
      LET r == returned[i]
          q == Terms(r.input.problem)
          options == r.input.options
      IN  (r.chain.plan.problem_type = "sequence" /\ Quadratic(q))
            => /\ r.chain.steps[4].tool_output = FloatV(100 * NextTerm(q))
               /\ (options = <<>> \/ InOptions(IntToStr(NextTerm(q)), options))
                    => r.result.answer = IntToStr(NextTerm(q))

\* the answer for 2, 6, 12, 20 with the options 28, 30, 32, 34 is "30"
C14_Thirty ==
    \A i \in 1..Len(returned) :
      (/\ returned[i].input.problem = "sequence 2, 6, 12, 20"
       /\ returned[i].input.options = <<"28", "30", "32", "34">>)
        => returned[i].result.answer = "30"

\* the solver names the equation step records, in the order of the cascade
CascadeLabels ==
    <<"enhanced_work_rate", "production_optimizer", "switch_identifier",
      "work_rate_calculator", "pipeline_scheduler", "gear_calculator",
      "worst_case_analyzer", "constraint_solver">>

\* the positions of the cascade whose solver returns a result in world w
Successful(w) ==
    {i \in 1..Len(CascadeLabels) :
       ~IsRaise(w[MathSolvers[i]]) /\ Truthy(w[MathSolvers[i]])}

\* the position of the highest-priority solver that returns a result in
\* world w, no solver before it having raised; 0 if there is none
Winner(w) ==
    IF Successful(w) = {} THEN 0
    ELSE IF \E j \in 1..(MinOf(Successful(w)) - 1) : IsRaise(w[MathSolvers[j]])
    THEN 0
    ELSE MinOf(Successful(w))

\* C15: the equation step of a mathematical plan records the solver and the
\* solver output of the highest-priority solver of the cascade that returned
\* a result, whatever the solvers after it would do, at every position of the
\* cascade.
C15_CascadePriority ==
    \A i \in 1..Len(returned) :
      LET w == pool[returned[i].input.problem]
          step == returned[i].chain.steps[2]
      IN  (returned[i].chain.plan.problem_type = "mathematical" /\ Winner(w) # 0)
            => /\ step.tool_used = StrV(CascadeLabels[Winner(w)])
               /\ step.tool_output = w[MathSolvers[Winner(w)]]

\* the plan types whose handlers have no algorithm of their own: a step of
\* theirs has a solver output only if a solver or the oracle gave it
SolverOnly == {"logical", "optimization", "lateral_thinking", "classic_riddle"}

\* the returned calls with options in which no solver fired for any
\* sub-problem and the oracle picked no option
OptionsButNoSolver ==
    {i \in 1..Len(returned) :
       /\ returned[i].input.options # <<>>
       /\ returned[i].chain.plan.problem_type \in SolverOnly
       /\ Silent(pool[returned[i].input.problem])
       /\ OraclePicks(returned[i].input.problem, returned[i].input.options) = {}}

\* C16: when no solver fires for a sub-problem, its step has no solver output
\* and its result is not the first option put in by the Step Executor.
C16_NoDefaultInSteps ==
    \A i \in OptionsButNoSolver :
      LET steps == SynthesizedFrom(returned[i])
          first == returned[i].input.options[1]
      IN  \A k \in 1..Len(steps) :
            steps[k].tool_used = None
              => /\ steps[k].tool_output = None
                 /\ Truthy(steps[k].result)
                      => \/ steps[k].result.s # first
                         \/ first \in DetermineStatusStrings

\* _determine_final_answer was applied to a chain
Synthesized == applied.done /\ applied.f = "determine_final_answer"

\* the steps of the chain with a numeric solver output
NumericSteps(steps) == {k \in 1..Len(steps) : IsNumber(steps[k].tool_output)}

\* the number as the Answer Synthesizer writes it: a whole float without ".0"
Canonical(out) ==
    IF out.k = "float" /\ IsInteger(out.n) THEN IntToStr(out.n \div 100) ELSE PyStr(out)

\* an answer derived from the numeric output out: its canonical string, or an
\* option that equals it, contains it or starts with it
DerivedFromNumber(answer, out, options) ==
    \/ answer = Canonical(out)
    \/ /\ InOptions(answer, options)
       /\ Contains(Canonical(out), answer)

\* C17: if a step of the chain has a numeric solver output, the preliminary
\* answer is derived from the most recent such step, even when a more recent
\* step has a string solver output that is not a sentinel.
C17_NumericFirst ==
    Synthesized =>
      LET steps == applied.args.steps
      IN  NumericSteps(steps) # {}
            => DerivedFromNumber(applied.value,
                                 steps[MaxOf(NumericSteps(steps))].tool_output,
                                 applied.args.options)

\* a string made only of digits and commas
DigitsAndCommas(s) ==
    /\ s # ""
    /\ \A i \in 1..Len(s) : IsDigit(SubSeq(s, i, i)) \/ SubSeq(s, i, i) = ","

\* the result of the step is made only of digits and commas
DigitResult(step) == step.result.k = "str" /\ DigitsAndCommas(step.result.s)

\* the result scan is used: no step has a usable solver output
ResultScanUsed(steps) == \A k \in 1..Len(steps) : ~UsableOutput(steps[k].tool_output)

\* the steps without those whose result is made only of digits and commas
WithoutDigitResults(steps) == SelectSeq(steps, LAMBDA step : ~DigitResult(step))

\* C18: in the result scan (no step has a usable solver output) a step result
\* made only of digits and commas is skipped: it is neither returned nor
\* matched with the options, so the preliminary answer is the one of the chain
\* without such steps.
C18_DigitResultsSkipped ==
    Synthesized /\ ResultScanUsed(applied.args.steps)
      => /\ \A k \in 1..Len(applied.args.steps) :
              DigitResult(applied.args.steps[k])
                => applied.value # applied.args.steps[k].result.s
         /\ applied.value
              = determine_final_answer(WithoutDigitResults(applied.args.steps),
                                       applied.args.options,
                                       applied.args.use_mistral,
                                       applied.args.analysis)

\* the instance of C18 for results holding a comma, "10,10,10"
C18_CommaResultsSkipped ==
    Synthesized /\ ResultScanUsed(applied.args.steps)
      /\ (\A k \in 1..Len(applied.args.steps) :
            DigitResult(applied.args.steps[k])
              => Contains(",", applied.args.steps[k].result.s))
      => applied.value
           = determine_final_answer(WithoutDigitResults(applied.args.steps),
                                    applied.args.options,
                                    applied.args.use_mistral,
                                    applied.args.analysis)

\* _refine_answer was applied to an answer and a non-empty list of options
Refined == applied.done /\ applied.f = "refine_answer" /\ applied.args.options # <<>>

\* some option equals the answer p, contains it or is contained in it
TextualMatch(p, options) ==
    \E i \in 1..Len(options) :
      \/ Strip(Lower(p)) = Strip(Lower(options[i]))
      \/ Contains(Lower(p), Lower(options[i]))
      \/ Contains(Lower(options[i]), Lower(p))

\* the number of words opt and the answer p share, case-insensitively
Overlap(p, opt) == Cardinality(Words(Lower(opt)) \cap Words(Lower(p)))

\* C19: when no option equals, contains or is contained in the preliminary
\* answer, the answer is not a sentinel and some option shares a word with it,
\* the returned option is one whose word overlap with the answer is maximal.
C19_LargestOverlap ==
    LET p == applied.args.preliminary_answer
        options == applied.args.options
    IN  (/\ Refined
         /\ ~TextualMatch(p, options)
         /\ p \notin RefineStatusStrings
         /\ \E i \in 1..Len(options) : Overlap(p, options[i]) > 0)
          => \E i \in 1..Len(options) :
               /\ applied.value = options[i]
               /\ \A j \in 1..Len(options) :
                    Overlap(p, options[j]) <= Overlap(p, options[i])

\* the part of C19 that holds: the returned option shares a word with the
\* answer
C19_SomeOverlap ==
    LET p == applied.args.preliminary_answer
        options == applied.args.options
    IN  (/\ Refined
         /\ ~TextualMatch(p, options)
         /\ p \notin RefineStatusStrings
         /\ \E i \in 1..Len(options) : Overlap(p, options[i]) > 0)
          => \E i \in 1..Len(options) :
               applied.value = options[i] /\ Overlap(p, options[i]) > 0

C20_UnmatchedSentinel ==
    LET p == applied.args.preliminary_answer
    IN  (/\ Refined
         /\ InOptions("Another answer", applied.args.options)
         /\ p \in RefineStatusStrings
         /\ ~TextualMatch(p, applied.args.options))
          => applied.value = "Another answer"

\* validate_result was applied to a result
Validated == applied.done /\ applied.f = "validate_result"

\* the four checks of validate_result on result: not empty, not a status
\* string, a number of magnitude at most 1,000,000, and at most 100 when the
\* problem mentions a percentage
ChecksPass(result, pct) ==
    /\ result # ""
    /\ Strip(Lower(result)) \notin ValidateStatusStrings
    /\ HasNumber(result)
         => /\ ~AbsGreater(FirstNumber(result), 1000000)
            /\ pct => ~Greater(FirstNumber(result), 100)

\* C21: validate_result judges a result valid only if it is not empty, is not
\* a status sentinel, its number has magnitude at most 1,000,000 and, when the
\* problem mentions a percentage, is at most 100, whatever the options.
C21_ValidOnlyIfAllChecksPass ==
    (Validated /\ applied.value.valid)
      => ChecksPass(applied.args.result, applied.args.pct)

\* the part of C21 that holds: a valid result that no option equals, contains
\* or is contained in passes the four checks
C21_ValidWithoutOptionMatch ==
    (/\ Validated /\ applied.value.valid
     /\ \A i \in 1..Len(applied.args.options) :
          /\ ~Contains(Lower(applied.args.result), Lower(applied.args.options[i]))
          /\ ~Contains(Lower(applied.args.options[i]), Lower(applied.args.result)))
      => ChecksPass(applied.args.result, applied.args.pct)

\* the positions of the self-correction steps of steps
Corrections(steps) == {k \in 1..Len(steps) : IsCorrection(steps[k])}

\* C22: after execute_plan, the chain has a self-correction step if and only
\* if the Self-Corrector's answer differs from the preliminary answer; there is
\* at most one, it is the last step, it has verified = TRUE and its result is
\* final_answer. When the preliminary answer passes validation there is none
\* and final_answer is the preliminary answer.
C22_CorrectionStep ==
    \A t \in AfterExecutePlan :
      LET f == frames[t]
          chain == chains[f.chain]
          steps == chain.steps
          n == Len(f.plan.sub_problems)
          pct == MentionsPercentage(f.input.problem)
          corrected == self_correct(f.preliminary_answer, pct,
                                    SubSeq(steps, 1, n), f.input.options).answer
      IN  /\ chain.final_answer = StrV(corrected)
          /\ (Corrections(steps) # {}) <=> (corrected # f.preliminary_answer)
          /\ Cardinality(Corrections(steps)) <= 1
          /\ \A k \in Corrections(steps) :
               /\ k = Len(steps)
               /\ steps[k].verified
               /\ steps[k].result = chain.final_answer
          /\ validate_result(f.preliminary_answer, pct, f.input.options).valid
               => /\ Corrections(steps) = {}
                  /\ chain.final_answer = StrV(f.preliminary_answer)

\* a chain whose last step is the self-correction step, with the corrected
\* answer, and a preliminary answer that failed validation
C22_Witness ==
    \E t \in AfterExecutePlan :
      LET f == frames[t]
          chain == chains[f.chain]
      IN  /\ Corrections(chain.steps) = {Len(chain.steps)}
          /\ chain.steps[Len(chain.steps)].verified
          /\ chain.final_answer # StrV(f.preliminary_answer)
          /\ ~validate_result(f.preliminary_answer,
                              MentionsPercentage(f.input.problem),
                              f.input.options).valid

\* verify_chain was applied to a chain
ChainVerified == applied.done /\ applied.f = "verify_chain"

\* the adjacent steps i, i + 1 of steps that are weakly connected: the thought
\* of the later does not name the result of the earlier
WeakPairs(steps) ==
    {i \in 1..(Len(steps) - 1) : ~steps_connected(steps[i], steps[i + 1])}

\* the issues of the Verifier that are not about the connection of steps
KnownIssues ==
    {"Step produced no result", "Tool output is NaN or infinite",
     "Not all sub-problems were addressed", "No valid final answer determined"}

\* the final answer is missing or is "Unable to determine answer"
NoFinalAnswer(chain) ==
    ~Truthy(chain.final_answer) \/ chain.final_answer = StrV(UnableToDetermine)

\* the samples verify_chain averages: the confidence of each verified step,
\* and 0.0 when the final answer is missing
Samples(steps, chain) ==
    [i \in 1..Len(steps) |-> steps[i].confidence]
    \o (IF NoFinalAnswer(chain) THEN <<0>> ELSE <<>>)

\* the mean of the samples, 0.5 when there is none
MeanOf(samples) ==
    IF samples = <<>> THEN Tenths(5) ELSE SumSeq(samples) \div Len(samples)

\* C23: verify_chain judges a chain valid only if no issue was raised and the
\* overall confidence exceeds 0.6; a weak connection between adjacent steps
\* adds a suggestion and nothing else: no issue is about it, and a chain
\* without issues whose confidence exceeds 0.6 is valid however its steps are
\* connected.
C23_ValidityAndConnectivity ==
    ChainVerified =>
      LET v == applied.value.verification
          steps == applied.args.chain.steps
      IN  /\ v.is_valid => (v.issues = <<>> /\ v.confidence > Tenths(6))
          /\ \A i \in 1..Len(v.issues) : v.issues[i] \in KnownIssues
          /\ \A i \in WeakPairs(steps) :
               \E k \in 1..Len(v.suggestions) :
                 v.suggestions[k] = "Steps " \o IntToStr(i) \o " and "
                                    \o IntToStr(i + 1) \o " may not be well connected"
          /\ (WeakPairs(steps) # {} /\ v.issues = <<>> /\ v.confidence > Tenths(6))
               => v.is_valid
          /\ WeakPairs(steps) # {}
               => v.confidence \in
                    {MeanOf(Samples(applied.value.steps, applied.args.chain)),
                     (MeanOf(Samples(applied.value.steps, applied.args.chain)) * 7)
                       \div 10}

\* a chain of two weakly connected steps that is judged valid, with the
\* suggestion about their connection
C23_Witness ==
    /\ ChainVerified
    /\ WeakPairs(applied.args.chain.steps) = {1}
    /\ applied.value.verification.is_valid
    /\ applied.value.verification.issues = <<>>
    /\ \E k \in 1..Len(applied.value.verification.suggestions) :
         applied.value.verification.suggestions[k]
           = "Steps 1 and 2 may not be well connected"

\* a chain-level issue is flagged: fewer steps than sub-problems, or no final
\* answer
ChainLevelIssue(chain) ==
    \/ Len(chain.steps) < Len(chain.plan.sub_problems)
    \/ NoFinalAnswer(chain)

\* C24: the overall confidence of verify_chain is the mean of the per-step
\* verification confidences, with one more sample 0.0 when the final answer
\* is missing or is "Unable to determine answer", multiplied by 0.7 if and
\* only if a chain-level issue (incompleteness, no final answer) was flagged.
C24_OverallConfidence ==
    ChainVerified =>
      LET mean == MeanOf(Samples(applied.value.steps, applied.args.chain))
      IN  applied.value.verification.confidence
            = IF ChainLevelIssue(applied.args.chain) THEN (mean * 7) \div 10
              ELSE mean

\* the part of C24 that holds: the mean is multiplied by 0.7 if and only if
\* an issue was raised, by a step or by the chain
C24_ReducedByAnyIssue ==
    ChainVerified =>
      LET mean == MeanOf(Samples(applied.value.steps, applied.args.chain))
      IN  applied.value.verification.confidence
            = IF applied.value.verification.issues # <<>> THEN (mean * 7) \div 10
              ELSE mean

\* verify_step was applied to a step with neither a result nor a solver output
EmptyStepVerified ==
    /\ applied.done /\ applied.f = "verify_step"
    /\ ~Truthy(applied.args.step.result)
    /\ ~Truthy(applied.args.step.tool_output)

\* C25: verify_step on a step whose result and solver output are both empty
\* raises the issue "Step produced no result" and reports a confidence of at
\* least 0.3, whatever the action and the thought of the step.
C25_NoResultFloor ==
    EmptyStepVerified
      => /\ \E i \in 1..Len(applied.value.issues) :
              applied.value.issues[i] = "Step produced no result"
         /\ applied.value.confidence >= Tenths(3)

\* the part of C25 that holds: the issue is raised, the step is not valid and
\* its confidence is at most 0.3
C25_NoResultIssue ==
    EmptyStepVerified
      => /\ applied.value.issues = <<"Step produced no result">>
         /\ ~applied.value.is_valid
         /\ applied.value.confidence <= Tenths(3)

\* calculate_confidence_score was applied to a chain whose plan requires a
\* solver
Scored ==
    /\ applied.done /\ applied.f = "calculate_confidence_score"
    /\ \E i \in 1..Len(applied.args.chain.plan.required_tools) :
         applied.args.chain.plan.required_tools[i] # "reasoning_engine"

\* the solver kinds the plan requires
RequiredKinds(plan) == Range(plan.required_tools) \ {"reasoning_engine"}

\* the solver kinds the steps of the chain used
UsedKinds(chain) ==
    {chain.steps[i].tool_used.s :
       i \in {j \in 1..Len(chain.steps) : Truthy(chain.steps[j].tool_used)}}

\* the weighted average of the four factors, the tool-usage factor being
\* tool_usage
ScoreWith(chain, verification, tool_usage) ==
    LET nsub == Len(chain.plan.sub_problems)
        plan_completion == IF nsub > 0 THEN (Len(chain.steps) * Scale) \div nsub
                           ELSE Scale
        critical == \E i \in 1..Len(verification.issues) :
                       Contains("error", Lower(verification.issues[i]))
    IN  ClampUnit((4 * verification.confidence
                   + 2 * Min2(Scale, plan_completion)
                   + 2 * Min2(Scale, tool_usage)
                   + 2 * (IF critical THEN Tenths(3) ELSE Scale)) \div 10)

\* C26: the tool-usage factor of the confidence aggregator is min(1, n / m),
\* m being the number of solver kinds the plan requires and n the number of
\* those that some step used: a kind used by several steps counts once, and a
\* solver the plan does not require does not count.
C26_ToolUsageFactor ==
    Scored =>
      LET chain == applied.args.chain
          required == RequiredKinds(chain.plan)
      IN  applied.value
            = ScoreWith(chain, applied.args.verification,
                        (Cardinality(UsedKinds(chain) \cap required) * Scale)
                          \div Cardinality(required))

\* what holds in place of C26: the factor is min(1, n / m), n being the number
\* of steps that used a solver of any kind
C26_StepsWithTools ==
    Scored =>
      LET chain == applied.args.chain
          n == Cardinality({i \in 1..Len(chain.steps) :
                              Truthy(chain.steps[i].tool_used)})
      IN  applied.value
            = ScoreWith(chain, applied.args.verification,
                        (n * Scale) \div Cardinality(RequiredKinds(chain.plan)))

\* the step new is the step old but for verified and confidence
SameButVerdict(old, new) ==
    new = [old EXCEPT !.verified = new.verified, !.confidence = new.confidence]

\* verify_chain runs on chain c in this step of solve
Verifying(c) ==
    \E t \in Threads :
      pc[t].at = "verify" /\ pc'[t].at = "return" /\ frames[t].chain = c

\* C27: verify_chain changes only verified and confidence of the steps the
\* chain has: it adds, removes and reorders none, and leaves their other
\* fields and the chain's plan, final_answer and overall_confidence as they
\* are; nothing else writes the verified or confidence of a step once it is in
\* the chain.
C27_VerifierFrame ==
    [][\A c \in 1..Len(chains) :
         LET old == chains[c]
             new == chains'[c]
         IN  IF Verifying(c)
             THEN /\ Len(new.steps) = Len(old.steps)
                  /\ \A k \in 1..Len(old.steps) :
                       SameButVerdict(old.steps[k], new.steps[k])
                  /\ new.plan = old.plan
                  /\ new.final_answer = old.final_answer
                  /\ new.overall_confidence = old.overall_confidence
             ELSE /\ Len(new.steps) >= Len(old.steps)
                  /\ \A k \in 1..Len(old.steps) : new.steps[k] = old.steps[k]]_vars

\* a verified chain in which the Verifier has rewritten the confidence 0.1 of
\* a failed step
C27_Witness ==
    \E t \in Threads :
      /\ pc[t].at = "return"
      /\ \E k \in 1..Len(chains[frames[t].chain].steps) :
           LET step == chains[frames[t].chain].steps[k]
           IN  /\ StartsWith(step.thought, "Error executing step: ")
               /\ step.confidence # Tenths(1)
               /\ ~step.verified

\* the most recent step of the chain with a usable solver output has a
\* numeric one, whose canonical string is an option
NumericOutputIsOption(steps, options) ==
    LET usable == {k \in 1..Len(steps) : UsableOutput(steps[k].tool_output)}
    IN  /\ usable # {}
        /\ IsNumber(steps[MaxOf(usable)].tool_output)
        /\ InOptions(Canonical(steps[MaxOf(usable)].tool_output), options)

\* C28: when the Answer Synthesizer answers from a numeric solver output and
\* an option equals its canonical string, that option is returned, wherever it
\* is in the list and whatever the options before it contain.
C28_EqualOptionFirst ==
    (Synthesized /\ NumericOutputIsOption(applied.args.steps, applied.args.options))
      => LET usable == {k \in 1..Len(applied.args.steps) :
                          UsableOutput(applied.args.steps[k].tool_output)}
         IN  applied.value
               = Canonical(applied.args.steps[MaxOf(usable)].tool_output)

\* what holds in place of C28: the option returned is the first that equals
\* the canonical string, contains it or starts with it
C28_FirstMatchingOption ==
    (Synthesized /\ NumericOutputIsOption(applied.args.steps, applied.args.options))
      => LET usable == {k \in 1..Len(applied.args.steps) :
                          UsableOutput(applied.args.steps[k].tool_output)}
             answer_str == Canonical(applied.args.steps[MaxOf(usable)].tool_output)
             options == applied.args.options
         IN  applied.value
               = options[MinOf({i \in 1..Len(options) :
                                  Contains(answer_str, options[i])})]

\* the calls whose invalid preliminary answer the Self-Corrector replaced
Replaced ==
    {t \in AfterExecutePlan :
       /\ chains[frames[t].chain].final_answer # StrV(frames[t].preliminary_answer)
       /\ ~validate_result(frames[t].preliminary_answer,
                           MentionsPercentage(frames[t].input.problem),
                           frames[t].input.options).valid}

\* C29: an answer self_correct puts in place of an invalid preliminary answer
\* passes validate_result for the same problem and options, or is the first
\* option.
C29_ReplacementIsValid ==
    \A t \in Replaced :
      LET f == frames[t]
          replacement == chains[f.chain].final_answer.s
      IN  \/ validate_result(replacement, MentionsPercentage(f.input.problem),
                             f.input.options).valid
          \/ /\ f.input.options # <<>>
             /\ replacement = f.input.options[1]

\* the part of C29 that holds: the replacement differs from the preliminary
\* answer and is not empty
C29_ReplacementDiffers ==
    \A t \in Replaced :
      /\ chains[frames[t].chain].final_answer.s # frames[t].preliminary_answer
      /\ chains[frames[t].chain].final_answer.s # ""

\* get_statistics() was called and the cache was not empty
StatisticsTaken == applied.f = "get_statistics" /\ DOMAIN applied.value # {}

\* the problems solved, since the last clear, when get_statistics() was called
SolvedThen ==
    {returned[i].input.problem :
       i \in (applied.args.cleared_at + 1)..applied.args.calls}

\* C30: the three confidence bands of get_statistics partition the cached
\* results: their counts sum to total_problems, and total_problems is the
\* number of distinct problems solved, not the number of solve calls.
C30_BandsPartition ==
    StatisticsTaken
      => /\ applied.value.high_confidence_count
              + applied.value.medium_confidence_count
              + applied.value.low_confidence_count
              = applied.value.total_problems
         /\ applied.value.total_problems = Cardinality(SolvedThen)

\* get_statistics() after two calls for one problem: one problem, in one band
C30_Witness ==
    /\ StatisticsTaken
    /\ applied.args.calls = 2
    /\ applied.args.cleared_at = 0
    /\ returned[1].input.problem = returned[2].input.problem
    /\ applied.value.total_problems = 1
    /\ applied.value.high_confidence_count = 1

====
